---- MODULE Spec2Model ----
(***************************************************************************)
(* A model of the WJS script engine of playbymail/otto: the lexer          *)
(* (wjs/lexer), the recursive-descent parser (wjs/parser) and the          *)
(* tree-walking interpreter (wjs/vm).  Each component is a state machine   *)
(* over its own fields; the three specifications LexerSpec, ParserSpec and *)
(* VMSpec drive one component each from a bounded set of inputs.           *)
(***************************************************************************)
EXTENDS Integers, Sequences, FiniteSets, TLC

VARIABLES
    \* Lexer (wjs/lexer/lexer.go, type Lexer) and AllTokens' result
    input, position, readPos, ch, line, column, allTokens, lpc,
    \* Parser (type Parser), ParseProgram's locals and CheckValid's result
    tokens, pos, program, ppc, sawError, checked,
    \* VM (type VM), Execute's locals and the host's output sink
    stmts, vars, heap, pcount, lastValue, result, out, evaluated, vpc,
    \* runWithTimeout: the caller, and per call its worker goroutine, the
    \* worker's locals, the channel ch, the channel of time.After, the outcome
    \* returned and the order in which the call's events happened
    cpc, wpc, held, chans, timers, returned, trace

lexerVars == <<input, position, readPos, ch, line, column, allTokens, lpc>>
parserVars == <<tokens, pos, program, ppc, sawError, checked>>
vmVars == <<stmts, vars, heap, pcount, lastValue, result, out, evaluated, vpc>>
raceVars == <<cpc, wpc, held, chans, timers, returned, trace>>
vars_all == <<lexerVars, parserVars, vmVars, raceVars>>

(***************************************************************************)
(* Bounds of the model.                                                    *)
(***************************************************************************)
MaxInput == 3

(***************************************************************************)
(* Bytes.  A byte is a one-character string; NUL is the byte 0 that        *)
(* readChar stores in l.ch at the end of the input, BT the backtick.       *)
(***************************************************************************)
NUL == "NUL"
DQ == "\""
SQ == "'"
BT == "bt"
BS == "\\"
NL == "\n"

Bytes == {"a", "1", ".", DQ, BT, BS, "=", "!", "/", NL, " ", NUL, "@", ";"}

isLetter(c) == c \in {"a", "b", "x", "y", "_"}

isDigit(c) == c \in {"0", "1", "2", "3", "4", "5"}

isSpace(c) == c \in {" ", "\t", NL, "\r"}

(***************************************************************************)
(* The lexer.  A lexer state is a record of the Lexer fields.              *)
(***************************************************************************)
Lex(in, p, rp, c, ln, col) ==
    [input |-> in, position |-> p, readPos |-> rp, ch |-> c, line |-> ln, column |-> col]

readChar(l) ==
    LET c == IF l.readPos >= Len(l.input) THEN NUL ELSE l.input[l.readPos + 1]
    IN  [l EXCEPT !.ch = c,
                  !.position = l.readPos,
                  !.readPos = l.readPos + 1,
                  !.line = IF c = NL THEN l.line + 1 ELSE l.line,
                  !.column = IF c = NL THEN 1 ELSE l.column + 1]

peekChar(l) == IF l.readPos >= Len(l.input) THEN NUL ELSE l.input[l.readPos + 1]

New(in) == readChar(Lex(in, 0, 0, NUL, 1, 1))

RECURSIVE skipWhitespace(_)
skipWhitespace(l) == IF isSpace(l.ch) THEN skipWhitespace(readChar(l)) ELSE l

RECURSIVE skipToLineEnd(_)
skipToLineEnd(l) == IF l.ch # NL /\ l.ch # NUL THEN skipToLineEnd(readChar(l)) ELSE l

skipLineComment(l) == skipToLineEnd(readChar(readChar(l)))

\* input[from:to] of Go: a fault unless from <= to <= len(input)
SliceOk(in, from, to) == from <= to /\ to <= Len(in)

Slice(in, from, to) == SubSeq(in, from + 1, to)

RECURSIVE scanIdentifier(_)
scanIdentifier(l) ==
    IF isLetter(l.ch) \/ isDigit(l.ch) THEN scanIdentifier(readChar(l)) ELSE l

RECURSIVE scanDigits(_)
scanDigits(l) == IF isDigit(l.ch) THEN scanDigits(readChar(l)) ELSE l

\* readIdentifier, readNumber, readString, readTemplate: the lexer state after
\* the scan, the lexeme, and whether the slice expression faulted
Scan(l, from) ==
    [l |-> l, fault |-> ~SliceOk(l.input, from, l.position),
     lexeme |-> IF SliceOk(l.input, from, l.position)
                THEN Slice(l.input, from, l.position) ELSE <<>>]

readIdentifier(l) == Scan(scanIdentifier(l), l.position)

readNumber(l) ==
    LET l1 == scanDigits(l)
        l2 == IF l1.ch = "." /\ isDigit(peekChar(l1)) THEN scanDigits(readChar(l1)) ELSE l1
    IN  Scan(l2, l.position)

RECURSIVE scanQuoted(_, _)
scanQuoted(l, delimiter) ==
    LET l1 == readChar(l)
    IN  IF l1.ch = delimiter \/ l1.ch = NUL THEN l1
        ELSE IF l1.ch = BS THEN scanQuoted(readChar(l1), delimiter)
        ELSE scanQuoted(l1, delimiter)

readString(l, delimiter) == Scan(scanQuoted(l, delimiter), l.position + 1)

readTemplate(l) == Scan(scanQuoted(l, BT), l.position + 1)

keywords ==
    [w \in {<<"l", "e", "t">>, <<"t", "r", "u", "e">>, <<"f", "a", "l", "s", "e">>,
            <<"n", "u", "l", "l">>, <<"i", "f">>, <<"e", "l", "s", "e">>} |->
        CASE w = <<"l", "e", "t">> -> "LET"
          [] w = <<"t", "r", "u", "e">> -> "TRUE"
          [] w = <<"f", "a", "l", "s", "e">> -> "FALSE"
          [] w = <<"n", "u", "l", "l">> -> "NULL"
          [] w = <<"i", "f">> -> "IF"
          [] OTHER -> "ELSE"]

LookupIdent(ident) == IF ident \in DOMAIN keywords THEN keywords[ident] ELSE "IDENT"

Token(type, lexeme, p) == [Type |-> type, Lexeme |-> lexeme, Pos |-> p]

PosOf(l) == [Line |-> l.line, Column |-> l.column, Offset |-> l.position]

\* the two-character operators ==, !=, <=, >= and their one-character forms
TwoChar(c) == CASE c = "=" -> "EQEQ" [] c = "!" -> "BANGEQ" [] c = "<" -> "LTEQ" [] OTHER -> "GTEQ"
OneChar(c) ==
    CASE c = "=" -> "EQUAL" [] c = "!" -> "BANG" [] c = "<" -> "LT" [] c = ">" -> "GT"
      [] c = "+" -> "PLUS" [] c = "-" -> "MINUS" [] c = "*" -> "ASTERISK" [] c = "/" -> "SLASH"
      [] c = "%" -> "PERCENT" [] c = "," -> "COMMA" [] c = ";" -> "SEMICOLON"
      [] c = ":" -> "COLON" [] c = "(" -> "LPAREN" [] c = ")" -> "RPAREN"
      [] c = "[" -> "LBRACK" [] c = "]" -> "RBRACK" [] c = "{" -> "LBRACE"
      [] c = "}" -> "RBRACE" [] c = "." -> "DOT" [] OTHER -> "ILLEGAL"

Punct == {"+", "-", "*", "%", ",", ";", ":", "(", ")", "[", "]", "{", "}", "."}

\* NextToken: the token returned, the lexer state after the call, and whether
\* the call ended in a run-time fault (slice bounds out of range)
Ret(l, tok) == [l |-> l, tok |-> tok, fault |-> FALSE]

Fault(l) == [l |-> l, tok |-> Token("ILLEGAL", <<>>, PosOf(l)), fault |-> TRUE]

RECURSIVE NextToken(_)
NextToken(l0) ==
    LET l == skipWhitespace(l0)
        p == PosOf(l)
        c == l.ch
    IN  IF c \in {"=", "!", "<", ">"}
        THEN IF peekChar(l) = "="
             THEN LET l1 == readChar(l)
                  IN  Ret(readChar(l1), Token(TwoChar(c), <<c, l1.ch>>, p))
             ELSE Ret(readChar(l), Token(OneChar(c), <<c>>, p))
        ELSE IF c = "/"
        THEN IF peekChar(l) = "/"
             THEN NextToken(skipLineComment(l))
             ELSE Ret(readChar(l), Token("SLASH", <<c>>, p))
        ELSE IF c \in Punct
        THEN Ret(readChar(l), Token(OneChar(c), <<c>>, p))
        ELSE IF c = DQ \/ c = SQ
        THEN LET s == readString(l, c)
             IN  IF s.fault THEN Fault(s.l)
                 ELSE Ret(readChar(s.l), Token("STRING", s.lexeme, p))
        ELSE IF c = BT
        THEN LET s == readTemplate(l)
             IN  IF s.fault THEN Fault(s.l)
                 ELSE Ret(readChar(s.l), Token("TEMPLATE", s.lexeme, p))
        ELSE IF c = NUL
        THEN Ret(readChar(l), Token("EOF", <<>>, p))
        ELSE IF isLetter(c)
        THEN LET s == readIdentifier(l)
             IN  IF s.fault THEN Fault(s.l)
                 ELSE Ret(s.l, Token(LookupIdent(s.lexeme), s.lexeme, p))
        ELSE IF isDigit(c)
        THEN LET s == readNumber(l)
             IN  IF s.fault THEN Fault(s.l) ELSE Ret(s.l, Token("NUMBER", s.lexeme, p))
        ELSE Ret(readChar(l), Token("ILLEGAL", <<c>>, p))

(***************************************************************************)
(* AllTokens: the loop that calls NextToken until it returns EOF.  lpc is  *)
(* "new" before New has run, "scan" inside the loop, "done" once AllTokens *)
(* has returned and "panic" when a NextToken call ended in a run-time      *)
(* fault.                                                                  *)
(***************************************************************************)
Inputs == UNION {[1..n -> Bytes] : n \in 0..MaxInput}

lexer == Lex(input, position, readPos, ch, line, column)

LexerIdle ==
    /\ input = <<>> /\ position = 0 /\ readPos = 0 /\ ch = NUL
    /\ line = 1 /\ column = 1 /\ allTokens = <<>> /\ lpc = "idle"

\* a nil pointer or nil interface value
Nil == [kind |-> "nil"]

ParserIdle ==
    /\ tokens = <<>> /\ pos = 0 /\ program = Nil /\ ppc = "idle"
    /\ sawError = FALSE /\ checked = <<>>

\* the nil Value, which is the script's null
Null == [t |-> "null"]

VMIdle ==
    /\ stmts = <<>> /\ vars = <<>> /\ heap = <<>> /\ pcount = 0
    /\ lastValue = Null /\ result = <<>> /\ out = <<>> /\ evaluated = <<>>
    /\ vpc = "idle"

\* no call of runWithTimeout has been made
RaceIdle ==
    /\ cpc = "idle" /\ wpc = <<>> /\ held = <<>> /\ chans = <<>> /\ timers = <<>>
    /\ returned = <<>> /\ trace = <<>>

\* before New(script, input) has run
LexerInit ==
    /\ input = <<>> /\ position = 0 /\ readPos = 0 /\ ch = NUL
    /\ line = 1 /\ column = 1 /\ allTokens = <<>> /\ lpc = "new"
    /\ ParserIdle /\ VMIdle /\ RaceIdle

\* New(script, input): the lexer over one input, its first byte read
NewLexer ==
    /\ lpc = "new"
    /\ input' \in Inputs
    /\ LET l == New(input')
       IN  /\ position' = l.position /\ readPos' = l.readPos
           /\ ch' = l.ch /\ line' = l.line /\ column' = l.column
    /\ lpc' = "scan"
    /\ UNCHANGED <<allTokens, parserVars, vmVars, raceVars>>

AllTokensStep ==
    /\ lpc = "scan"
    /\ LET r == NextToken(lexer)
       IN  /\ position' = r.l.position /\ readPos' = r.l.readPos /\ ch' = r.l.ch
           /\ line' = r.l.line /\ column' = r.l.column
           /\ allTokens' = IF r.fault THEN allTokens ELSE Append(allTokens, r.tok)
           /\ lpc' = IF r.fault THEN "panic"
                     ELSE IF r.tok.Type = "EOF" THEN "done" ELSE "scan"
    /\ UNCHANGED <<input, parserVars, vmVars, raceVars>>

LexerNext == NewLexer \/ AllTokensStep

LexerSpec == LexerInit /\ [][LexerNext]_vars_all


(***************************************************************************)
(* The parser (wjs/parser).  A parse function of the Go code reads and     *)
(* moves p.pos and returns a node; here it is an operator over the token   *)
(* slice and the position that yields the node, the position it leaves in  *)
(* p.pos, and whether it ended in a run-time fault (a method call on a nil *)
(* interface value).                                                       *)
(***************************************************************************)
MaxTokens == 3
MaxChain == 2

\* Let(v, F) is F(v) with v evaluated once
Let(v, F(_)) == CHOOSE y \in {F(x) : x \in {v}} : TRUE

\* the zero value of lexer.Position
NoPos == [Line |-> 0, Column |-> 0, Offset |-> 0]

\* AST nodes (wjs/ast); Pos() of a node is its Start field
Program(start, ss) == [kind |-> "Program", Start |-> start, Stmts |-> ss]

LetStmt(start, name, value) ==
    [kind |-> "LetStmt", Start |-> start, Name |-> name, Value |-> value]

AssignStmt(start, target, value) ==
    [kind |-> "AssignStmt", Start |-> start, Target |-> target, Value |-> value]

ExprStmt(start, value) == [kind |-> "ExprStmt", Start |-> start, Value |-> value]

Ident(start, name) == [kind |-> "Ident", Start |-> start, Name |-> name]

\* IntVal and FloatVal are pointers: <<v>> when set, <<>> when nil
NumberLit(start, intVal, floatVal) ==
    [kind |-> "NumberLit", Start |-> start, IntVal |-> intVal, FloatVal |-> floatVal]

StringLit(start, value) == [kind |-> "StringLit", Start |-> start, Value |-> value]

TextPart(start, value) == [kind |-> "TextPart", Start |-> start, Value |-> value]

Interpolation(start, expr) == [kind |-> "Interpolation", Start |-> start, Expr |-> expr]

TemplateLit(start, parts) == [kind |-> "TemplateLit", Start |-> start, Parts |-> parts]

BooleanLit(start, value) == [kind |-> "BooleanLit", Start |-> start, Value |-> value]

NullLit(start) == [kind |-> "NullLit", Start |-> start]

UnaryExpr(start, operator, operand) ==
    [kind |-> "UnaryExpr", Start |-> start, Operator |-> operator, Operand |-> operand]

BinaryExpr(start, left, operator, right) ==
    [kind |-> "BinaryExpr", Start |-> start, Left |-> left, Operator |-> operator,
     Right |-> right]

CallExpr(start, callee, args) ==
    [kind |-> "CallExpr", Start |-> start, Callee |-> callee, Args |-> args]

MemberExpr(start, object, field) ==
    [kind |-> "MemberExpr", Start |-> start, Object |-> object, Field |-> field]

IndexExpr(start, target, index) ==
    [kind |-> "IndexExpr", Start |-> start, Target |-> target, Index |-> index]

IsNil(n) == n.kind = "nil"

\* what a parse function leaves behind: its node and p.pos, or a fault
Out(node, p) == [node |-> node, pos |-> p, panic |-> FALSE]

Panic(p) == [node |-> Nil, pos |-> p, panic |-> TRUE]

peek(toks, p) == IF p >= Len(toks) THEN Token("EOF", <<>>, NoPos) ELSE toks[p + 1]

\* p.pos after advance(); the token advance() returns is peek(toks, p)
advance(toks, p) == IF p < Len(toks) THEN p + 1 ELSE p

expect(toks, p, tokenType) ==
    IF peek(toks, p).Type = tokenType
    THEN [ok |-> TRUE, pos |-> advance(toks, p)]
    ELSE [ok |-> FALSE, pos |-> p]

LOWEST == 1
EQUALS == 2
LESSGREATER == 3
SUM == 4
PRODUCT == 5
PREFIX == 6
CALL == 7
INDEX == 8

\* a table in which every binary operator binds alike: not the table of the
\* parser
precedencesFlat ==
    [t \in {"EQEQ", "BANGEQ", "LT", "LTEQ", "GT", "GTEQ", "PLUS", "MINUS",
            "ASTERISK", "SLASH", "PERCENT", "LPAREN", "DOT", "LBRACK"} |->
        CASE t = "LPAREN" -> CALL
          [] t \in {"DOT", "LBRACK"} -> INDEX
          [] OTHER -> SUM]

precedences ==
    [t \in {"EQEQ", "BANGEQ", "LT", "LTEQ", "GT", "GTEQ", "PLUS", "MINUS",
            "ASTERISK", "SLASH", "PERCENT", "LPAREN", "DOT", "LBRACK"} |->
        CASE t \in {"EQEQ", "BANGEQ"} -> EQUALS
          [] t \in {"LT", "LTEQ", "GT", "GTEQ"} -> LESSGREATER
          [] t \in {"PLUS", "MINUS"} -> SUM
          [] t \in {"ASTERISK", "SLASH", "PERCENT"} -> PRODUCT
          [] t = "LPAREN" -> CALL
          [] OTHER -> INDEX]

peekPrecedence(toks, p) ==
    IF peek(toks, p).Type \in DOMAIN precedences
    THEN precedences[peek(toks, p).Type]
    ELSE LOWEST

BinaryOperators ==
    {"PLUS", "MINUS", "ASTERISK", "SLASH", "PERCENT",
     "EQEQ", "BANGEQ", "LT", "LTEQ", "GT", "GTEQ"}

\* strconv.Atoi and strconv.ParseFloat on the lexemes the lexer can produce
\* (digits, or digits "." digits); a float is the fraction num/den in lowest
\* terms
DigitValue(c) ==
    CASE c = "0" -> 0 [] c = "1" -> 1 [] c = "2" -> 2 [] c = "3" -> 3 [] c = "4" -> 4
      [] OTHER -> 5

RECURSIVE DigitsValue(_)
DigitsValue(s) ==
    IF s = <<>> THEN 0
    ELSE 10 * DigitsValue(SubSeq(s, 1, Len(s) - 1)) + DigitValue(s[Len(s)])

RECURSIVE GCD(_, _)
GCD(a, b) == IF b = 0 THEN a ELSE GCD(b, a % b)

Abs(n) == IF n < 0 THEN 0 - n ELSE n

Float(num, den) ==
    LET g == GCD(Abs(num), Abs(den))
        s == IF den < 0 THEN 0 - 1 ELSE 1
    IN  [num |-> (s * num) \div g, den |-> (s * den) \div g]

RECURSIVE Pow10(_)
Pow10(n) == IF n = 0 THEN 1 ELSE 10 * Pow10(n - 1)

AllDigits(s) == s # <<>> /\ \A i \in 1..Len(s) : isDigit(s[i])

Atoi(s) == [ok |-> AllDigits(s), val |-> IF AllDigits(s) THEN DigitsValue(s) ELSE 0]

ParseFloat(s) ==
    LET dots == {i \in 1..Len(s) : s[i] = "."}
        d == CHOOSE i \in dots : TRUE
        whole == SubSeq(s, 1, d - 1)
        frac == SubSeq(s, d + 1, Len(s))
        ok == /\ Cardinality(dots) = 1
              /\ \A i \in (1..Len(s)) \ dots : isDigit(s[i])
              /\ Len(s) > 1
    IN  IF AllDigits(s) THEN [ok |-> TRUE, val |-> Float(DigitsValue(s), 1)]
        ELSE IF ok
        THEN [ok |-> TRUE,
              val |-> Float(DigitsValue(whole \o frac), Pow10(Len(frac)))]
        ELSE [ok |-> FALSE, val |-> Float(0, 1)]

parseIdentifier(toks, p) ==
    Out(Ident(peek(toks, p).Pos, peek(toks, p).Lexeme), advance(toks, p))

\* a parser that tries float parsing first: not what parseNumberLiteral does
parseNumberLiteralFloatFirst(toks, p) ==
    LET token == peek(toks, p)
    IN  IF ParseFloat(token.Lexeme).ok
        THEN Out(NumberLit(token.Pos, <<>>, <<ParseFloat(token.Lexeme).val>>),
                 advance(toks, p))
        ELSE IF Atoi(token.Lexeme).ok
        THEN Out(NumberLit(token.Pos, <<Atoi(token.Lexeme).val>>, <<>>),
                 advance(toks, p))
        ELSE Out(Nil, advance(toks, p))

parseNumberLiteral(toks, p) ==
    LET token == peek(toks, p)
    IN  IF Atoi(token.Lexeme).ok
        THEN Out(NumberLit(token.Pos, <<Atoi(token.Lexeme).val>>, <<>>),
                 advance(toks, p))
        ELSE IF ParseFloat(token.Lexeme).ok
        THEN Out(NumberLit(token.Pos, <<>>, <<ParseFloat(token.Lexeme).val>>),
                 advance(toks, p))
        ELSE Out(Nil, advance(toks, p))

parseStringLiteral(toks, p) ==
    Out(StringLit(peek(toks, p).Pos, peek(toks, p).Lexeme), advance(toks, p))

parseTemplateLiteral(toks, p) ==
    LET token == peek(toks, p)
    IN  Out(TemplateLit(token.Pos, <<TextPart(token.Pos, token.Lexeme)>>),
            advance(toks, p))

parseBooleanOrNullLiteral(toks, p) ==
    LET token == peek(toks, p)
    IN  CASE token.Type = "TRUE" -> Out(BooleanLit(token.Pos, TRUE), advance(toks, p))
          [] token.Type = "FALSE" -> Out(BooleanLit(token.Pos, FALSE), advance(toks, p))
          [] token.Type = "NULL" -> Out(NullLit(token.Pos), advance(toks, p))
          [] OTHER -> Out(Nil, advance(toks, p))

RECURSIVE parseExpressionWithPrecedence(_, _, _)
RECURSIVE parseOperators(_, _, _, _)
RECURSIVE parsePrimaryExpression(_, _)
RECURSIVE parseUnaryExpression(_, _)
RECURSIVE parseGroupedExpression(_, _)
RECURSIVE parseBinaryExpression(_, _, _)
RECURSIVE parseCallExpression(_, _, _)
RECURSIVE parseArguments(_, _, _)
RECURSIVE parseMemberExpression(_, _, _)
RECURSIVE parseIndexExpression(_, _, _)

parseExpression(toks, p) == parseExpressionWithPrecedence(toks, p, LOWEST)

parseExpressionWithPrecedence(toks, p, precedence) ==
    Let(parsePrimaryExpression(toks, p), LAMBDA left :
        IF left.panic \/ IsNil(left.node) THEN left
        ELSE parseOperators(toks, left.pos, precedence, left.node))

\* the for loop of parseExpressionWithPrecedence: left is reassigned by every
\* round, to nil when the round's parse function fails, and the loop goes on
parseOperators(toks, p, precedence, left) ==
    LET type == peek(toks, p).Type
    IN  IF type # "SEMICOLON" /\ type # "EOF" /\ precedence < peekPrecedence(toks, p)
        THEN IF type \in BinaryOperators \cup {"LPAREN", "DOT", "LBRACK"}
             THEN Let(CASE type \in BinaryOperators ->
                               parseBinaryExpression(toks, p, left)
                        [] type = "LPAREN" -> parseCallExpression(toks, p, left)
                        [] type = "DOT" -> parseMemberExpression(toks, p, left)
                        [] OTHER -> parseIndexExpression(toks, p, left),
                      LAMBDA r :
                          IF r.panic THEN r
                          ELSE parseOperators(toks, r.pos, precedence, r.node))
             ELSE Out(left, p)
        ELSE Out(left, p)

\* the default case returns nil and consumes nothing
parsePrimaryExpression(toks, p) ==
    LET type == peek(toks, p).Type
    IN  CASE type = "IDENT" -> parseIdentifier(toks, p)
          [] type = "NUMBER" -> parseNumberLiteral(toks, p)
          [] type = "STRING" -> parseStringLiteral(toks, p)
          [] type = "TEMPLATE" -> parseTemplateLiteral(toks, p)
          [] type \in {"TRUE", "FALSE", "NULL"} -> parseBooleanOrNullLiteral(toks, p)
          [] type \in {"MINUS", "BANG"} -> parseUnaryExpression(toks, p)
          [] type = "LPAREN" -> parseGroupedExpression(toks, p)
          [] OTHER -> Out(Nil, p)

parseUnaryExpression(toks, p) ==
    LET token == peek(toks, p)
    IN  Let(parseExpressionWithPrecedence(toks, advance(toks, p), PREFIX),
            LAMBDA operand :
                IF operand.panic \/ IsNil(operand.node) THEN operand
                ELSE Out(UnaryExpr(token.Pos, token.Lexeme, operand.node),
                         operand.pos))

\* the expression inside the parentheses may be nil and is returned as it is
parseGroupedExpression(toks, p) ==
    Let(parseExpression(toks, advance(toks, p)), LAMBDA expr :
        IF expr.panic THEN expr
        ELSE IF expect(toks, expr.pos, "RPAREN").ok
        THEN Out(expr.node, expect(toks, expr.pos, "RPAREN").pos)
        ELSE Out(Nil, expr.pos))

\* left.Pos() is called once the right operand has parsed: a fault when left
\* is nil
parseBinaryExpression(toks, p, left) ==
    LET token == peek(toks, p)
    IN  Let(parseExpressionWithPrecedence(toks, advance(toks, p),
                                          precedences[token.Type]),
            LAMBDA right :
                IF right.panic \/ IsNil(right.node) THEN right
                ELSE IF IsNil(left) THEN Panic(right.pos)
                ELSE Out(BinaryExpr(left.Start, left, token.Lexeme, right.node),
                         right.pos))

\* the arguments of a call, from the first one to the last: an argument that
\* fails to parse is appended as nil
parseArguments(toks, p, args) ==
    Let(parseExpression(toks, p), LAMBDA arg :
        IF arg.panic THEN [args |-> args, pos |-> arg.pos, panic |-> TRUE]
        ELSE IF expect(toks, arg.pos, "COMMA").ok
        THEN parseArguments(toks, expect(toks, arg.pos, "COMMA").pos,
                            Append(args, arg.node))
        ELSE [args |-> Append(args, arg.node), pos |-> arg.pos, panic |-> FALSE])

\* callee.Pos() is called first: a fault when callee is nil
parseCallExpression(toks, p, callee) ==
    IF IsNil(callee) THEN Panic(p)
    ELSE Let(IF peek(toks, advance(toks, p)).Type # "RPAREN"
             THEN parseArguments(toks, advance(toks, p), <<>>)
             ELSE [args |-> <<>>, pos |-> advance(toks, p), panic |-> FALSE],
             LAMBDA a :
                 IF a.panic THEN Panic(a.pos)
                 ELSE IF expect(toks, a.pos, "RPAREN").ok
                 THEN Out(CallExpr(callee.Start, callee, a.args),
                          expect(toks, a.pos, "RPAREN").pos)
                 ELSE Out(Nil, a.pos))

\* object.Pos() is called first: a fault when object is nil
parseMemberExpression(toks, p, object) ==
    IF IsNil(object) THEN Panic(p)
    ELSE LET p1 == advance(toks, p)
         IN  IF peek(toks, p1).Type # "IDENT" THEN Out(Nil, p1)
             ELSE Out(MemberExpr(object.Start, object,
                                 Ident(peek(toks, p1).Pos, peek(toks, p1).Lexeme)),
                      advance(toks, p1))

\* target.Pos() is called first: a fault when target is nil
parseIndexExpression(toks, p, target) ==
    IF IsNil(target) THEN Panic(p)
    ELSE Let(parseExpression(toks, advance(toks, p)), LAMBDA index :
             IF index.panic \/ IsNil(index.node) THEN index
             ELSE IF expect(toks, index.pos, "RBRACK").ok
             THEN Out(IndexExpr(target.Start, target, index.node),
                      expect(toks, index.pos, "RBRACK").pos)
             ELSE Out(Nil, index.pos))

\* the semicolon after a statement is consumed when present
parseLetStatement(toks, p) ==
    LET start == peek(toks, p).Pos
        p1 == advance(toks, p)
        name == Ident(peek(toks, p1).Pos, peek(toks, p1).Lexeme)
        p2 == advance(toks, p1)
    IN  IF peek(toks, p1).Type # "IDENT" THEN Out(Nil, p1)
        ELSE IF ~expect(toks, p2, "EQUAL").ok THEN Out(Nil, p2)
        ELSE Let(parseExpression(toks, expect(toks, p2, "EQUAL").pos),
                 LAMBDA value :
                     IF value.panic \/ IsNil(value.node) THEN value
                     ELSE Out(LetStmt(start, name, value.node),
                              expect(toks, value.pos, "SEMICOLON").pos))

parseAssignmentStatement(toks, p) ==
    Let(parseExpression(toks, p), LAMBDA target :
        IF target.panic \/ IsNil(target.node) THEN target
        ELSE IF ~expect(toks, target.pos, "EQUAL").ok THEN Out(Nil, target.pos)
        ELSE Let(parseExpression(toks, expect(toks, target.pos, "EQUAL").pos),
                 LAMBDA value :
                     IF value.panic \/ IsNil(value.node) THEN value
                     ELSE Out(AssignStmt(target.node.Start, target.node, value.node),
                              expect(toks, value.pos, "SEMICOLON").pos)))

parseExpressionStatement(toks, p) ==
    Let(parseExpression(toks, p), LAMBDA expr :
        IF expr.panic \/ IsNil(expr.node) THEN expr
        ELSE Out(ExprStmt(expr.node.Start, expr.node),
                 expect(toks, expr.pos, "SEMICOLON").pos))

\* the lookahead is one token: only an identifier that "=" follows directly
\* starts an assignment statement
parseIdentStatement(toks, p) ==
    IF p + 1 < Len(toks) /\ toks[p + 2].Type = "EQUAL"
    THEN parseAssignmentStatement(toks, p)
    ELSE parseExpressionStatement(toks, p)

parseStatement(toks, p) ==
    CASE peek(toks, p).Type = "LET" -> parseLetStatement(toks, p)
      [] peek(toks, p).Type = "IDENT" -> parseIdentStatement(toks, p)
      [] OTHER -> parseExpressionStatement(toks, p)

(***************************************************************************)
(* Token sequences handed to the parser.  A token stands at the position   *)
(* the lexer gives the i-th token of a line of one-byte tokens.            *)
(***************************************************************************)
Tok(type, lexeme) == [Type |-> type, Lexeme |-> lexeme]

PositionAt(i) == [Line |-> 1, Column |-> i + 1, Offset |-> i - 1]

TokensOf(s) ==
    [i \in 1..(Len(s) + 1) |->
        IF i <= Len(s) THEN Token(s[i].Type, s[i].Lexeme, PositionAt(i))
        ELSE Token("EOF", <<>>, PositionAt(i))]

TokA == Tok("IDENT", <<"a">>)
TokB == Tok("IDENT", <<"b">>)
TokX == Tok("IDENT", <<"x">>)
Tok0 == Tok("NUMBER", <<"0">>)
Tok1 == Tok("NUMBER", <<"1">>)
Tok2 == Tok("NUMBER", <<"2">>)
Tok5 == Tok("NUMBER", <<"5">>)
Tok10 == Tok("NUMBER", <<"1", "0">>)
TokMinus == Tok("MINUS", <<"-">>)
TokAsterisk == Tok("ASTERISK", <<"*">>)
TokEqual == Tok("EQUAL", <<"=">>)
TokSemicolon == Tok("SEMICOLON", <<";">>)
TokComma == Tok("COMMA", <<",">>)
TokLParen == Tok("LPAREN", <<"(">>)
TokRParen == Tok("RPAREN", <<")">>)
TokLBrack == Tok("LBRACK", <<"[">>)
TokRBrack == Tok("RBRACK", <<"]">>)
TokDot == Tok("DOT", <<".">>)
TokLet == Tok("LET", <<"l", "e", "t">>)
TokIf == Tok("IF", <<"i", "f">>)
TokIllegal == Tok("ILLEGAL", <<"@">>)

TokenKinds ==
    {TokA, Tok1, TokMinus, TokAsterisk, TokEqual, TokSemicolon, TokComma,
     TokLParen, TokRParen, TokLBrack, TokRBrack, TokDot, TokLet, TokIf,
     TokIllegal}

\* every line of at most MaxTokens tokens
ShortLines == UNION {[1..n -> TokenKinds] : n \in 1..MaxTokens}

\* a.b  a[0]  a.b[0]  ... : an identifier and at most n member or index steps
RECURSIVE Chains(_)
Chains(n) ==
    IF n = 0 THEN {<<TokA>>}
    ELSE Chains(n - 1) \cup
         {c \o step : c \in Chains(n - 1),
                      step \in {<<TokDot, TokB>>, <<TokLBrack, Tok0, TokRBrack>>}}

\* chain = 1;
ChainAssignments == {c \o <<TokEqual, Tok1, TokSemicolon>> : c \in Chains(MaxChain)}

\* 1 * * 2;   and   let x = 5; x = 10; x;   and   let x = 5 let b = 1   and
\* a(1,);   a(,);   a(1, 2);
Examples ==
    {<<Tok1, TokAsterisk, TokAsterisk, Tok2, TokSemicolon>>,
     <<TokA, TokLParen, Tok1, TokComma, TokRParen, TokSemicolon>>,
     <<TokA, TokLParen, TokComma, TokRParen, TokSemicolon>>,
     <<TokA, TokLParen, Tok1, TokComma, Tok2, TokRParen, TokSemicolon>>,
     <<TokLet, TokX, TokEqual, Tok5, TokSemicolon,
       TokX, TokEqual, Tok10, TokSemicolon, TokX, TokSemicolon>>,
     <<TokLet, TokX, TokEqual, Tok5, TokLet, TokB, TokEqual, Tok1>>}

ParserInputs ==
    {<<>>} \cup {TokensOf(s) : s \in ShortLines \cup ChainAssignments \cup Examples}

(***************************************************************************)
(* ParseProgram.  ppc is "new" before New has run, "begin" at the entry of *)
(* ParseProgram, "loop" at the head of its for loop, "done" once it has    *)
(* returned program and "panic" when a parse function ended in a run-time  *)
(* fault.  sawError records that parseStatement has returned nil.          *)
(***************************************************************************)
ParserInit ==
    /\ LexerIdle /\ VMIdle /\ RaceIdle
    /\ tokens = <<>> /\ pos = 0 /\ program = Nil /\ ppc = "new" /\ sawError = FALSE
    /\ checked = <<>>

\* New(tokens)
NewParser ==
    /\ ppc = "new"
    /\ tokens' \in ParserInputs
    /\ pos' = 0
    /\ ppc' = "begin"
    /\ UNCHANGED <<program, sawError, checked, lexerVars, vmVars, raceVars>>

\* ParseProgram up to its loop
ParseProgramBegin ==
    /\ ppc = "begin"
    /\ IF Len(tokens) = 0
       THEN program' = Program(NoPos, <<>>) /\ ppc' = "done"
       ELSE program' = Program(tokens[1].Pos, <<>>) /\ ppc' = "loop"
    /\ UNCHANGED <<tokens, pos, sawError, checked, lexerVars, vmVars, raceVars>>

\* one round of the loop: parseStatement, and the append when it is not nil
ParseProgramLoop ==
    /\ ppc = "loop"
    /\ peek(tokens, pos).Type # "EOF"
    /\ \E stmt \in {parseStatement(tokens, pos)} :
          /\ pos' = stmt.pos
          /\ ppc' = IF stmt.panic THEN "panic" ELSE "loop"
          /\ program' = IF stmt.panic \/ IsNil(stmt.node) THEN program
                        ELSE [program EXCEPT !.Stmts = Append(@, stmt.node)]
          /\ sawError' = (sawError \/ (~stmt.panic /\ IsNil(stmt.node)))
    /\ UNCHANGED <<tokens, checked, lexerVars, vmVars, raceVars>>

\* the loop ends at EOF and ParseProgram returns program
ParseProgramReturn ==
    /\ ppc = "loop"
    /\ peek(tokens, pos).Type = "EOF"
    /\ ppc' = "done"
    /\ UNCHANGED <<tokens, pos, program, sawError, checked, lexerVars, vmVars, raceVars>>

ParserNext == NewParser \/ ParseProgramBegin \/ ParseProgramLoop \/ ParseProgramReturn

ParserSpec == ParserInit /\ [][ParserNext]_vars_all

\* the caller runs New and ParseProgram to their ends: a step that can be
\* taken is taken
ParserLive == ParserSpec /\ WF_vars_all(ParserNext)

(***************************************************************************)
(* Runtime values (wjs/vm).  A Value is a tagged record: the tag t is the  *)
(* dynamic Go type and v the payload.  Null is Go's nil Value.  An Array   *)
(* or Object value is a reference into the heap, the store of the          *)
(* containers, so that two bindings can hold the same container.  A string *)
(* is a sequence of characters, a float the fraction num/den.              *)
(***************************************************************************)
MaxStmts == 3

Bool(b) == [t |-> "bool", v |-> b]

Integer(n) == [t |-> "int", v |-> n]

Flt(r) == [t |-> "float", v |-> r]

Str(s) == [t |-> "string", v |-> s]

Builtin(name) == [t |-> "callable", v |-> name]

ArrayRef(i) == [t |-> "array", v |-> i]

ObjectRef(i) == [t |-> "object", v |-> i]

IsNumber(v) == v.t \in {"int", "float"}

IsString(v) == v.t = "string"

\* float64 arithmetic, exact on the fractions of the model
FAdd(a, b) == Float(a.num * b.den + b.num * a.den, a.den * b.den)

FSub(a, b) == Float(a.num * b.den - b.num * a.den, a.den * b.den)

FMul(a, b) == Float(a.num * b.num, a.den * b.den)

FDiv(a, b) == Float(a.num * b.den, a.den * b.num)

FLess(a, b) == a.num * b.den < b.num * a.den

FNeg(a) == Float(0 - a.num, a.den)

FZero(a) == a.num = 0

\* int64(f): the conversion truncates toward zero
Trunc(a) == IF a.num >= 0 THEN a.num \div a.den ELSE 0 - ((0 - a.num) \div a.den)

\* Go's integer remainder a % b for b # 0: its sign is the sign of a
Rem(a, b) == IF a >= 0 THEN a % Abs(b) ELSE 0 - ((0 - a) % Abs(b))

\* strconv.FormatInt(n, 10)
RECURSIVE FormatNat(_)
FormatNat(n) ==
    LET d == <<"0", "1", "2", "3", "4", "5", "6", "7", "8", "9">>
    IN  IF n < 10 THEN <<d[n + 1]>> ELSE FormatNat(n \div 10) \o <<d[(n % 10) + 1]>>

FormatInt(n) == IF n < 0 THEN <<"-">> \o FormatNat(0 - n) ELSE FormatNat(n)

\* strconv.FormatFloat(f, 'f', -1, 64): the digits after the point stop when
\* nothing is left, at sixteen at the latest
MaxFraction == 16

RECURSIVE FractionDigits(_, _, _)
FractionDigits(r, den, n) ==
    IF r = 0 \/ n = 0 THEN <<>>
    ELSE FormatNat((10 * r) \div den) \o FractionDigits((10 * r) % den, den, n - 1)

FormatFloat(a) ==
    LET n == Abs(a.num)
        frac == FractionDigits(n % a.den, a.den, MaxFraction)
        body == FormatNat(n \div a.den) \o (IF frac = <<>> THEN <<>> ELSE <<".">> \o frac)
    IN  IF a.num < 0 THEN <<"-">> \o body ELSE body

Chars(s) ==
    CASE s = "null" -> <<"n", "u", "l", "l">>
      [] s = "true" -> <<"t", "r", "u", "e">>
      [] s = "false" -> <<"f", "a", "l", "s", "e">>
      [] s = ", " -> <<",", " ">>
      [] s = ": " -> <<":", " ">>
      [] OTHER -> <<s>>

RECURSIVE Join(_, _)
Join(parts, sep) ==
    IF parts = <<>> THEN <<>>
    ELSE IF Len(parts) = 1 THEN parts[1]
    ELSE parts[1] \o sep \o Join(Tail(parts), sep)

\* Stringify.  keys is the order in which this run of the program ranges
\* over the keys of a map: Go leaves that order open.
RECURSIVE Stringify(_, _, _)
Stringify(v, h, keys) ==
    CASE v.t = "null" -> Chars("null")
      [] v.t = "bool" -> IF v.v THEN Chars("true") ELSE Chars("false")
      [] v.t = "int" -> FormatInt(v.v)
      [] v.t = "float" -> FormatFloat(v.v)
      [] v.t = "string" -> v.v
      [] v.t = "array" ->
            <<"[">> \o
            Join([i \in 1..Len(h[v.v].elems) |-> Stringify(h[v.v].elems[i], h, keys)],
                 Chars(", ")) \o
            <<"]">>
      [] v.t = "object" ->
            LET ks == SelectSeq(keys, LAMBDA k : k \in DOMAIN h[v.v].fields)
            IN  <<"{">> \o
                Join([i \in 1..Len(ks) |->
                         ks[i] \o Chars(": ") \o Stringify(h[v.v].fields[ks[i]], h, keys)],
                     Chars(", ")) \o
                <<"}">>
      [] OTHER -> <<"&", "{">> \o v.v \o <<"}">>

\* Equal: reflect.DeepEqual, which follows the references
RECURSIVE Equal(_, _, _)
Equal(a, b, h) ==
    /\ a.t = b.t
    /\ CASE a.t = "null" -> TRUE
         [] a.t = "array" ->
               /\ Len(h[a.v].elems) = Len(h[b.v].elems)
               /\ \A i \in 1..Len(h[a.v].elems) :
                     Equal(h[a.v].elems[i], h[b.v].elems[i], h)
         [] a.t = "object" ->
               /\ DOMAIN h[a.v].fields = DOMAIN h[b.v].fields
               /\ \A k \in DOMAIN h[a.v].fields :
                     Equal(h[a.v].fields[k], h[b.v].fields[k], h)
         [] OTHER -> a.v = b.v

(***************************************************************************)
(* The interpreter.  An evaluation yields st = "ok" with the value val,    *)
(* st = "err" with the RuntimeError err, or st = "panic" when it ended in  *)
(* a run-time fault; out is what it has written to the host's output by    *)
(* then.  A statement also yields the environment and the heap it leaves.  *)
(***************************************************************************)
NewRuntimeError(p, format, args) == [Message |-> <<format>> \o args, Pos |-> p]

NoError == [Message |-> <<>>, Pos |-> NoPos]

Ok(val, o) == [st |-> "ok", val |-> val, err |-> NoError, out |-> o]

Err(e, o) == [st |-> "err", val |-> Null, err |-> e, out |-> o]

Panicked(o) == [st |-> "panic", val |-> Null, err |-> NoError, out |-> o]

\* the same outcome after earlier output
After(o, r) == Let(r, LAMBDA x : [x EXCEPT !.out = o \o x.out])


\* the value of a NumberLit: the Integer IntVal points to, else the Float
\* FloatVal points to
NumberLitValue(lit) ==
    IF lit.IntVal # <<>> THEN Integer(lit.IntVal[1]) ELSE Flt(lit.FloatVal[1])

evalNumberLit(lit) == Ok(NumberLitValue(lit), <<>>)

evalStringLit(lit) == Ok(Str(lit.Value), <<>>)

evalIdent(vm, ident) ==
    IF ident.Name \notin DOMAIN vm.vars
    THEN Err(NewRuntimeError(ident.Start, "undefined variable: %s", <<ident.Name>>), <<>>)
    ELSE Ok(vm.vars[ident.Name], <<>>)

\* left.(float64) and right.(float64) fault on an int64
evalAdd(left, right, p) ==
    IF IsNumber(left) /\ IsNumber(right)
    THEN IF left.t = "float" /\ right.t = "float"
         THEN Ok(Flt(FAdd(left.v, right.v)), <<>>)
         ELSE Panicked(<<>>)
    ELSE IF IsString(left) /\ IsString(right) THEN Ok(Str(left.v \o right.v), <<>>)
    ELSE Err(NewRuntimeError(p, "type mismatch for + operator", <<>>), <<>>)

evalSubtract(left, right, p) ==
    IF IsNumber(left) /\ IsNumber(right)
    THEN IF left.t = "float" /\ right.t = "float"
         THEN Ok(Flt(FSub(left.v, right.v)), <<>>)
         ELSE Panicked(<<>>)
    ELSE Err(NewRuntimeError(p, "- operator requires numbers", <<>>), <<>>)

evalMultiply(left, right, p) ==
    IF IsNumber(left) /\ IsNumber(right)
    THEN IF left.t = "float" /\ right.t = "float"
         THEN Ok(Flt(FMul(left.v, right.v)), <<>>)
         ELSE Panicked(<<>>)
    ELSE Err(NewRuntimeError(p, "* operator requires numbers", <<>>), <<>>)

\* right.(float64) comes first, then the test for zero, then left.(float64)
evalDivide(left, right, p) ==
    IF IsNumber(left) /\ IsNumber(right)
    THEN IF right.t # "float" THEN Panicked(<<>>)
         ELSE IF FZero(right.v)
         THEN Err(NewRuntimeError(p, "division by zero", <<>>), <<>>)
         ELSE IF left.t # "float" THEN Panicked(<<>>)
         ELSE Ok(Flt(FDiv(left.v, right.v)), <<>>)
    ELSE Err(NewRuntimeError(p, "/ operator requires numbers", <<>>), <<>>)

\* int64(leftNum) % int64(rightNum) faults when int64(rightNum) is 0
evalModulus(left, right, p) ==
    IF IsNumber(left) /\ IsNumber(right)
    THEN IF right.t # "float" THEN Panicked(<<>>)
         ELSE IF FZero(right.v)
         THEN Err(NewRuntimeError(p, "modulus by zero", <<>>), <<>>)
         ELSE IF left.t # "float" THEN Panicked(<<>>)
         ELSE IF Trunc(right.v) = 0 THEN Panicked(<<>>)
         ELSE Ok(Flt(Float(Rem(Trunc(left.v), Trunc(right.v)), 1)), <<>>)
    ELSE Err(NewRuntimeError(p, "%% operator requires numbers", <<>>), <<>>)

evalLess(left, right, p) ==
    IF IsNumber(left) /\ IsNumber(right)
    THEN IF left.t = "float" /\ right.t = "float"
         THEN Ok(Bool(FLess(left.v, right.v)), <<>>)
         ELSE Panicked(<<>>)
    ELSE Err(NewRuntimeError(p, "< operator requires numbers", <<>>), <<>>)

evalGreater(left, right, p) ==
    IF IsNumber(left) /\ IsNumber(right)
    THEN IF left.t = "float" /\ right.t = "float"
         THEN Ok(Bool(FLess(right.v, left.v)), <<>>)
         ELSE Panicked(<<>>)
    ELSE Err(NewRuntimeError(p, "> operator requires numbers", <<>>), <<>>)

evalLessEqual(left, right, p) ==
    IF IsNumber(left) /\ IsNumber(right)
    THEN IF left.t = "float" /\ right.t = "float"
         THEN Ok(Bool(~FLess(right.v, left.v)), <<>>)
         ELSE Panicked(<<>>)
    ELSE Err(NewRuntimeError(p, "<= operator requires numbers", <<>>), <<>>)

evalGreaterEqual(left, right, p) ==
    IF IsNumber(left) /\ IsNumber(right)
    THEN IF left.t = "float" /\ right.t = "float"
         THEN Ok(Bool(~FLess(left.v, right.v)), <<>>)
         ELSE Panicked(<<>>)
    ELSE Err(NewRuntimeError(p, ">= operator requires numbers", <<>>), <<>>)

\* the built-in functions: their arities (-1 for any count) and bodies.
\* load and save call the defaultLoad and defaultSave of the VM, which fail.
NameLoad == <<"l", "o", "a", "d">>
NamePrint == <<"p", "r", "i", "n", "t">>
NameSave == <<"s", "a", "v", "e">>

BuiltinArity(name) ==
    CASE name = NamePrint -> 0 - 1
      [] name = NameLoad -> 1
      [] OTHER -> 2

RegisterBuiltins ==
    [name \in {NamePrint, NameLoad, NameSave} |-> Builtin(name)]

BuiltinBody(vm, name, p, args) ==
    CASE name = NamePrint ->
            Ok(Null,
               <<Join([i \in 1..Len(args) |-> Stringify(args[i], vm.heap, vm.keys)],
                      <<" ">>)>>)
      [] name = NameLoad ->
            IF args[1].t # "string"
            THEN Err(NewRuntimeError(p, "load expects a string path", <<>>), <<>>)
            ELSE Err(NewRuntimeError(p, "load error: %v", <<<<"load not implemented">>>>),
                     <<>>)
      [] OTHER ->
            IF args[2].t # "string"
            THEN Err(NewRuntimeError(p, "save expects a string as the second argument",
                                     <<>>), <<>>)
            ELSE Err(NewRuntimeError(p, "save expects a Map as the first argument",
                                     <<>>), <<>>)

\* builtinFunc.Call: the arity test, then the body
Call(vm, name, p, args) ==
    IF BuiltinArity(name) >= 0 /\ Len(args) # BuiltinArity(name)
    THEN Err(NewRuntimeError(p, "%s expects %d arguments, got %d",
                             <<name, FormatInt(BuiltinArity(name)), FormatInt(Len(args))>>),
             <<>>)
    ELSE BuiltinBody(vm, name, p, args)

RECURSIVE evalExpr(_, _)
RECURSIVE evalBinaryExpr(_, _)
RECURSIVE evalUnaryExpr(_, _)
RECURSIVE evalCallExpr(_, _)
RECURSIVE evalArgs(_, _, _, _)
RECURSIVE evalMemberExpr(_, _)
RECURSIVE evalIndexExpr(_, _)
RECURSIVE evalTemplateLit(_, _, _, _)

\* the type switch has no case for BooleanLit and NullLit; in the default
\* case e.Pos() faults on a nil expression
evalExpr(vm, e) ==
    CASE e.kind = "NumberLit" -> evalNumberLit(e)
      [] e.kind = "StringLit" -> evalStringLit(e)
      [] e.kind = "Ident" -> evalIdent(vm, e)
      [] e.kind = "BinaryExpr" -> evalBinaryExpr(vm, e)
      [] e.kind = "UnaryExpr" -> evalUnaryExpr(vm, e)
      [] e.kind = "CallExpr" -> evalCallExpr(vm, e)
      [] e.kind = "MemberExpr" -> evalMemberExpr(vm, e)
      [] e.kind = "IndexExpr" -> evalIndexExpr(vm, e)
      [] e.kind = "TemplateLit" -> evalTemplateLit(vm, e, 1, <<>>)
      [] e.kind = "nil" -> Panicked(<<>>)
      [] OTHER ->
            Err(NewRuntimeError(e.Start, "unknown expression type: %T", <<<<e.kind>>>>),
                <<>>)

evalBinaryExpr(vm, expr) ==
    Let(evalExpr(vm, expr.Left), LAMBDA left :
        IF left.st # "ok" THEN left
        ELSE Let(After(left.out, evalExpr(vm, expr.Right)), LAMBDA right :
            IF right.st # "ok" THEN right
            ELSE LET op == expr.Operator
                     p == expr.Start
                 IN  After(right.out,
                       CASE op = <<"+">> -> evalAdd(left.val, right.val, p)
                         [] op = <<"-">> -> evalSubtract(left.val, right.val, p)
                         [] op = <<"*">> -> evalMultiply(left.val, right.val, p)
                         [] op = <<"/">> -> evalDivide(left.val, right.val, p)
                         [] op = <<"%">> -> evalModulus(left.val, right.val, p)
                         [] op = <<"=", "=">> ->
                               Ok(Bool(Equal(left.val, right.val, vm.heap)), <<>>)
                         [] op = <<"!", "=">> ->
                               Ok(Bool(~Equal(left.val, right.val, vm.heap)), <<>>)
                         [] op = <<"<">> -> evalLess(left.val, right.val, p)
                         [] op = <<">">> -> evalGreater(left.val, right.val, p)
                         [] op = <<"<", "=">> -> evalLessEqual(left.val, right.val, p)
                         [] op = <<">", "=">> -> evalGreaterEqual(left.val, right.val, p)
                         [] OTHER ->
                               Err(NewRuntimeError(p, "unknown binary operator: %s",
                                                   <<op>>), <<>>))))


\* operand.(float64): an Integer operand is no number to unary minus
evalUnaryExpr(vm, expr) ==
    Let(evalExpr(vm, expr.Operand), LAMBDA operand :
        IF operand.st # "ok" THEN operand
        ELSE After(operand.out,
               CASE expr.Operator = <<"-">> ->
                       IF operand.val.t = "float"
                       THEN Ok(Flt(FNeg(operand.val.v)), <<>>)
                       ELSE Err(NewRuntimeError(expr.Start, "unary - requires a number",
                                                <<>>), <<>>)
                 [] expr.Operator = <<"!">> ->
                       IF operand.val.t = "bool"
                       THEN Ok(Bool(~operand.val.v), <<>>)
                       ELSE Err(NewRuntimeError(expr.Start, "unary ! requires a boolean",
                                                <<>>), <<>>)
                 [] OTHER ->
                       Err(NewRuntimeError(expr.Start, "unknown unary operator: %s",
                                           <<expr.Operator>>), <<>>)))


\* the arguments from the i-th on, after acc; val is the list of the values
evalArgs(vm, argExprs, i, acc) ==
    IF i > Len(argExprs) THEN [st |-> "ok", val |-> acc, err |-> NoError, out |-> <<>>]
    ELSE Let(evalExpr(vm, argExprs[i]), LAMBDA arg :
             IF arg.st # "ok" THEN arg
             ELSE After(arg.out, evalArgs(vm, argExprs, i + 1, Append(acc, arg.val))))


\* a call that evaluates its arguments before it looks at the callee: not
\* what evalCallExpr does
evalCallExprArgsFirst(vm, expr) ==
    Let(evalExpr(vm, expr.Callee), LAMBDA callee :
        IF callee.st # "ok" THEN callee
        ELSE Let(After(callee.out, evalArgs(vm, expr.Args, 1, <<>>)), LAMBDA args :
                 IF args.st # "ok" THEN args
                 ELSE IF callee.val.t # "callable"
                 THEN Err(NewRuntimeError(expr.Start, "value is not callable", <<>>),
                          args.out)
                 ELSE After(args.out, Call(vm, callee.val.v, expr.Start, args.val))))

evalCallExpr(vm, expr) ==
    Let(evalExpr(vm, expr.Callee), LAMBDA callee :
        IF callee.st # "ok" THEN callee
        ELSE IF callee.val.t # "callable"
        THEN Err(NewRuntimeError(expr.Start, "value is not callable", <<>>), callee.out)
        ELSE Let(After(callee.out, evalArgs(vm, expr.Args, 1, <<>>)), LAMBDA args :
                 IF args.st # "ok" THEN args
                 ELSE After(args.out, Call(vm, callee.val.v, expr.Start, args.val))))


evalMemberExpr(vm, expr) ==
    Let(evalExpr(vm, expr.Object), LAMBDA obj :
        IF obj.st # "ok" THEN obj
        ELSE IF obj.val.t = "object"
        THEN IF expr.Field.Name \notin DOMAIN vm.heap[obj.val.v].fields
             THEN Err(NewRuntimeError(expr.Start, "property '%s' not found",
                                      <<expr.Field.Name>>), obj.out)
             ELSE Ok(vm.heap[obj.val.v].fields[expr.Field.Name], obj.out)
        ELSE Err(NewRuntimeError(expr.Start, "cannot access property of non-object",
                                 <<>>), obj.out))


\* index.(float64): an Integer index is no number to an Array
evalIndexExpr(vm, expr) ==
    Let(evalExpr(vm, expr.Target), LAMBDA target :
        IF target.st # "ok" THEN target
        ELSE Let(After(target.out, evalExpr(vm, expr.Index)), LAMBDA index :
            IF index.st # "ok" THEN index
            ELSE IF target.val.t = "array"
            THEN IF index.val.t # "float"
                 THEN Err(NewRuntimeError(expr.Start, "array index must be a number",
                                          <<>>), index.out)
                 ELSE IF Trunc(index.val.v) < 0
                         \/ Trunc(index.val.v) >= Len(vm.heap[target.val.v].elems)
                 THEN Err(NewRuntimeError(expr.Start, "array index out of bounds: %d",
                                          <<FormatInt(Trunc(index.val.v))>>), index.out)
                 ELSE Ok(vm.heap[target.val.v].elems[Trunc(index.val.v) + 1], index.out)
            ELSE IF target.val.t = "object"
            THEN IF index.val.t # "string"
                 THEN Err(NewRuntimeError(expr.Start, "object key must be a string",
                                          <<>>), index.out)
                 ELSE IF index.val.v \notin DOMAIN vm.heap[target.val.v].fields
                 THEN Err(NewRuntimeError(expr.Start, "key '%s' not found",
                                          <<index.val.v>>), index.out)
                 ELSE Ok(vm.heap[target.val.v].fields[index.val.v], index.out)
            ELSE Err(NewRuntimeError(expr.Start, "cannot index non-array/non-object",
                                     <<>>), index.out)))


\* the parts from the i-th on, appended to the string built so far
evalTemplateLit(vm, lit, i, sofar) ==
    IF i > Len(lit.Parts) THEN Ok(Str(sofar), <<>>)
    ELSE IF lit.Parts[i].kind = "TextPart"
    THEN evalTemplateLit(vm, lit, i + 1, sofar \o lit.Parts[i].Value)
    ELSE IF lit.Parts[i].kind = "Interpolation"
    THEN Let(evalExpr(vm, lit.Parts[i].Expr), LAMBDA value :
             IF value.st # "ok" THEN value
             ELSE After(value.out,
                        evalTemplateLit(vm, lit, i + 1,
                            sofar \o Stringify(value.val, vm.heap, vm.keys))))
    ELSE evalTemplateLit(vm, lit, i + 1, sofar)


\* what a statement leaves: its outcome and the environment and heap after it
Stay(vm, r) ==
    Let(r, LAMBDA x : [st |-> x.st, val |-> x.val, err |-> x.err, out |-> x.out,
                       vars |-> vm.vars, heap |-> vm.heap])


Bind(f, k, v) == [x \in DOMAIN f \cup {k} |-> IF x = k THEN v ELSE f[x]]

\* a let that hands back the value it binds: not what evalLetStmt does
evalLetStmtYieldsValue(vm, stmt) ==
    Let(evalExpr(vm, stmt.Value), LAMBDA value :
        IF value.st # "ok" THEN Stay(vm, value)
        ELSE [Stay(vm, value) EXCEPT
                 !.vars = Bind(vm.vars, stmt.Name.Name, value.val)])

evalLetStmt(vm, stmt) ==
    Let(evalExpr(vm, stmt.Value), LAMBDA value :
        IF value.st # "ok" THEN Stay(vm, value)
        ELSE [Stay(vm, Ok(Null, value.out)) EXCEPT
                 !.vars = Bind(vm.vars, stmt.Name.Name, value.val)])


\* an identifier assignment that binds a name the environment lacks: not what
\* the Ident case of evalAssignStmt does
evalAssignIdentCreates(vm, lhs, value) ==
    [Stay(vm, value) EXCEPT !.vars = Bind(vm.vars, lhs.Name, value.val)]

\* an identifier assignment that yields its value and stores nothing: not
\* what the Ident case of evalAssignStmt does
evalAssignIdentNoStore(vm, lhs, value) == Stay(vm, value)

\* an identifier assignment that stores before it tests that the name is
\* bound: not what the Ident case of evalAssignStmt does
evalAssignIdentStoresFirst(vm, lhs, value) ==
    IF lhs.Name \notin DOMAIN vm.vars
    THEN [Stay(vm, Err(NewRuntimeError(lhs.Start, "undefined variable: %s", <<lhs.Name>>),
                       value.out))
             EXCEPT !.vars = Bind(vm.vars, lhs.Name, value.val)]
    ELSE [Stay(vm, value) EXCEPT !.vars = Bind(vm.vars, lhs.Name, value.val)]

evalAssignIdent(vm, lhs, value) ==
    IF lhs.Name \notin DOMAIN vm.vars
    THEN Stay(vm, Err(NewRuntimeError(lhs.Start, "undefined variable: %s", <<lhs.Name>>),
                      value.out))
    ELSE [Stay(vm, value) EXCEPT !.vars = Bind(vm.vars, lhs.Name, value.val)]

evalAssignMember(vm, lhs, value) ==
    Let(After(value.out, evalExpr(vm, lhs.Object)), LAMBDA obj :
        IF obj.st # "ok" THEN Stay(vm, obj)
        ELSE IF obj.val.t # "object"
        THEN Stay(vm, Err(NewRuntimeError(lhs.Start, "cannot assign to member of non-object",
                                          <<>>), obj.out))
        ELSE [Stay(vm, Ok(value.val, obj.out)) EXCEPT
                 !.heap = [vm.heap EXCEPT ![obj.val.v].fields =
                              Bind(@, lhs.Field.Name, value.val)]])


evalAssignIndex(vm, lhs, value) ==
    Let(After(value.out, evalExpr(vm, lhs.Target)), LAMBDA target :
        IF target.st # "ok" THEN Stay(vm, target)
        ELSE Let(After(target.out, evalExpr(vm, lhs.Index)), LAMBDA index :
            IF index.st # "ok" THEN Stay(vm, index)
            ELSE IF target.val.t = "array"
            THEN IF index.val.t # "float"
                 THEN Stay(vm, Err(NewRuntimeError(lhs.Start,
                                       "array index must be a number", <<>>), index.out))
                 ELSE IF Trunc(index.val.v) < 0
                         \/ Trunc(index.val.v) >= Len(vm.heap[target.val.v].elems)
                 THEN Stay(vm, Err(NewRuntimeError(lhs.Start,
                                       "array index out of bounds: %d",
                                       <<FormatInt(Trunc(index.val.v))>>), index.out))
                 ELSE [Stay(vm, Ok(value.val, index.out)) EXCEPT
                          !.heap = [vm.heap EXCEPT
                                       ![target.val.v].elems[Trunc(index.val.v) + 1] =
                                           value.val]]
            ELSE IF target.val.t = "object"
            THEN IF index.val.t # "string"
                 THEN Stay(vm, Err(NewRuntimeError(lhs.Start,
                                       "object key must be a string", <<>>), index.out))
                 ELSE [Stay(vm, Ok(value.val, index.out)) EXCEPT
                          !.heap = [vm.heap EXCEPT ![target.val.v].fields =
                                       Bind(@, index.val.v, value.val)]]
            ELSE Stay(vm, Err(NewRuntimeError(lhs.Start,
                                  "cannot index assign to non-array/non-object", <<>>),
                              index.out))))


\* the value first, then the target
evalAssignStmt(vm, stmt) ==
    Let(evalExpr(vm, stmt.Value), LAMBDA value :
        IF value.st # "ok" THEN Stay(vm, value)
        ELSE CASE stmt.Target.kind = "Ident" -> evalAssignIdent(vm, stmt.Target, value)
               [] stmt.Target.kind = "MemberExpr" ->
                     evalAssignMember(vm, stmt.Target, value)
               [] stmt.Target.kind = "IndexExpr" ->
                     evalAssignIndex(vm, stmt.Target, value)
               [] OTHER ->
                     Stay(vm, Err(NewRuntimeError(stmt.Start, "invalid assignment target",
                                                  <<>>), value.out)))


evalExprStmt(vm, stmt) == Stay(vm, evalExpr(vm, stmt.Value))

evalStmt(vm, stmt) ==
    CASE stmt.kind = "LetStmt" -> evalLetStmt(vm, stmt)
      [] stmt.kind = "AssignStmt" -> evalAssignStmt(vm, stmt)
      [] stmt.kind = "ExprStmt" -> evalExprStmt(vm, stmt)
      [] stmt.kind = "nil" -> Stay(vm, Panicked(<<>>))
      [] OTHER ->
            Stay(vm, Err(NewRuntimeError(stmt.Start, "unknown statement type: %T",
                                         <<<<stmt.kind>>>>), <<>>))

(***************************************************************************)
(* Programs handed to Execute: what the parser builds from lines of        *)
(* tokens, one statement a line.                                          *)
(***************************************************************************)
TokY == Tok("IDENT", <<"y">>)
TokO == Tok("IDENT", <<"o">>)
TokArr == Tok("IDENT", <<"a", "r", "r">>)
TokPrint == Tok("IDENT", NamePrint)
TokLoad == Tok("IDENT", NameLoad)
Tok3 == Tok("NUMBER", <<"3">>)
Tok4 == Tok("NUMBER", <<"4">>)
Tok20 == Tok("NUMBER", <<"2", "0">>)
Tok5p0 == Tok("NUMBER", <<"5", ".", "0">>)
Tok0p0 == Tok("NUMBER", <<"0", ".", "0">>)
Tok0p5 == Tok("NUMBER", <<"0", ".", "5">>)
Tok1p5 == Tok("NUMBER", <<"1", ".", "5">>)
Tok5p5 == Tok("NUMBER", <<"5", ".", "5">>)
TokStr == Tok("STRING", <<"s">>)
TokTemplate == Tok("TEMPLATE", <<"t">>)
\* the template  Value is ${1 + 2}  between its backticks
TextValueIs == <<"V", "a", "l", "u", "e", " ", "i", "s", " ">>
TokTemplateSpan ==
    Tok("TEMPLATE", TextValueIs \o <<"$", "{", "1", " ", "+", " ", "2", "}">>)
TokTrue == Tok("TRUE", <<"t", "r", "u", "e">>)
TokNull == Tok("NULL", <<"n", "u", "l", "l">>)
TokBang == Tok("BANG", <<"!">>)
TokPlus == Tok("PLUS", <<"+">>)
TokSlash == Tok("SLASH", <<"/">>)
TokPercent == Tok("PERCENT", <<"%">>)
TokEqEq == Tok("EQEQ", <<"=", "=">>)
TokBangEq == Tok("BANGEQ", <<"!", "=">>)
TokLt == Tok("LT", <<"<">>)
TokGt == Tok("GT", <<">">>)
TokLtEq == Tok("LTEQ", <<"<", "=">>)
TokGtEq == Tok("GTEQ", <<">", "=">>)

StmtOf(toks) == parseStatement(TokensOf(toks), 0).node

\* the AssignStmt of a target and a value, as a host builds it: the parser
\* builds an AssignStmt only for a target that is one identifier
AssignOf(target, value) ==
    AssignStmt(parseExpression(TokensOf(target), 0).node.Start,
               parseExpression(TokensOf(target), 0).node,
               parseExpression(TokensOf(value), 0).node)

\* let x = 5;  x = 10;  x;  let x = 1.5;  let y = x;  y;  y = 5;  print(x);
\* 1.5 + 0.5;
StmtLines ==
    {<<TokLet, TokX, TokEqual, Tok5, TokSemicolon>>,
     <<TokX, TokEqual, Tok10, TokSemicolon>>,
     <<TokX, TokSemicolon>>,
     <<TokLet, TokX, TokEqual, Tok1p5, TokSemicolon>>,
     <<TokLet, TokY, TokEqual, TokX, TokSemicolon>>,
     <<TokY, TokSemicolon>>,
     <<TokY, TokEqual, Tok5, TokSemicolon>>,
     <<TokPrint, TokLParen, TokX, TokRParen, TokSemicolon>>,
     <<Tok1p5, TokPlus, Tok0p5, TokSemicolon>>}

\* o.b = x;  arr[0.0] = x;
HostStmts ==
    {AssignOf(<<TokO, TokDot, TokB>>, <<TokX>>),
     AssignOf(<<TokArr, TokLBrack, Tok0p0, TokRBrack>>, <<TokX>>)}

StmtPool == {StmtOf(toks) : toks \in StmtLines} \cup HostStmts

\* every program of at most MaxStmts statements of the pool
PoolPrograms == UNION {[1..n -> StmtPool] : n \in 0..MaxStmts}

Operands ==
    {Tok5, Tok0, Tok1p5, Tok0p5, Tok5p5, Tok0p0, TokStr, TokTemplate, TokTrue, TokNull,
     TokX, TokO, TokArr, TokPrint}

Operators ==
    {TokPlus, TokMinus, TokAsterisk, TokSlash, TokPercent, TokEqEq, TokBangEq,
     TokLt, TokGt, TokLtEq, TokGtEq}

\* a op b;   -a;  !a;   a.b;  a[b];   a();  a(b);  a(b, c);  a(,);  the
\* template  Value is ${1 + 2};   arr[-b];   5 + 3;  5.0 + 3;  20 / 4;
ExprLines ==
    {<<a, op, b, TokSemicolon>> : a \in Operands, b \in Operands, op \in Operators}
    \cup {<<op, a, TokSemicolon>> : a \in Operands, op \in {TokMinus, TokBang}}
    \cup {<<a, TokDot, b, TokSemicolon>> : a \in Operands, b \in {TokB, TokX}}
    \cup {<<a, TokLBrack, b, TokRBrack, TokSemicolon>> : a \in Operands, b \in Operands}
    \cup {<<a, TokLParen, TokRParen, TokSemicolon>> : a \in Operands}
    \cup {<<a, TokLParen, b, TokRParen, TokSemicolon>> :
             a \in {TokPrint, TokLoad, TokX}, b \in Operands}
    \cup {<<a, TokLParen, b, TokComma, c, TokRParen, TokSemicolon>> :
             a \in {TokPrint, TokLoad, TokX}, b \in {Tok1p5, TokStr, TokY, TokO},
             c \in {TokO, TokStr, TokY}}
    \cup {<<TokPrint, TokLParen, TokComma, TokRParen, TokSemicolon>>}
    \cup {<<TokTemplateSpan, TokSemicolon>>}
    \cup {<<TokArr, TokLBrack, TokMinus, b, TokRBrack, TokSemicolon>> :
             b \in {Tok0p5, Tok1p5}}
    \cup {<<Tok5, TokPlus, Tok3, TokSemicolon>>, <<Tok5p0, TokPlus, Tok3, TokSemicolon>>,
          <<Tok20, TokSlash, Tok4, TokSemicolon>>}

\* a template of a text part and an interpolation of  a + b, as a host builds
\* it: the parser builds no Interpolation
TemplateOf(text, a, b) ==
    ExprStmt(PositionAt(1),
             TemplateLit(PositionAt(1),
                 <<TextPart(PositionAt(1), text),
                   Interpolation(PositionAt(1),
                       parseExpression(TokensOf(<<a, TokPlus, b>>), 0).node)>>))

HostTemplates ==
    {TemplateOf(TextValueIs, a, b) : a \in {Tok1p5, TokX, TokY}, b \in {Tok0p5}}

\* the programs of one expression statement, after  let x = 1.5;
ExprPrograms ==
    {<<StmtOf(<<TokLet, TokX, TokEqual, Tok1p5, TokSemicolon>>), e>> :
        e \in {StmtOf(toks) : toks \in ExprLines} \cup HostTemplates}

TokM == Tok("IDENT", <<"m">>)
TokTiles == Tok("IDENT", <<"t", "i", "l", "e", "s">>)
TokTerrain == Tok("IDENT", <<"t", "e", "r", "r", "a", "i", "n">>)
TokMountain == Tok("STRING", <<"m", "o", "u", "n", "t", "a", "i", "n">>)

\* the path  m.tiles[i].terrain  from the binding n
TerrainPath(n, i) ==
    <<n, TokDot, TokTiles, TokLBrack, i, TokRBrack, TokDot, TokTerrain>>

\* a second binding of a container, an assignment through the first, a read
\* through the second:
\*   let a = m;    m.tiles[i].terrain = "mountain";  a.tiles[0.0].terrain;
\*   let a = o;    o.b = "mountain";                 a.b;
\*   let a = arr;  arr[i] = "mountain";              a[0.0];
\* the assignments are built as a host builds them
SharingOn(i) ==
    {<<StmtOf(<<TokLet, TokA, TokEqual, TokM, TokSemicolon>>),
       AssignOf(TerrainPath(TokM, i), <<TokMountain>>),
       StmtOf(TerrainPath(TokA, Tok0p0) \o <<TokSemicolon>>)>>,
     <<StmtOf(<<TokLet, TokA, TokEqual, TokO, TokSemicolon>>),
       AssignOf(<<TokO, TokDot, TokB>>, <<TokMountain>>),
       StmtOf(<<TokA, TokDot, TokB, TokSemicolon>>)>>,
     <<StmtOf(<<TokLet, TokA, TokEqual, TokArr, TokSemicolon>>),
       AssignOf(<<TokArr, TokLBrack, i, TokRBrack>>, <<TokMountain>>),
       StmtOf(<<TokA, TokLBrack, Tok0p0, TokRBrack, TokSemicolon>>)>>}

\* with the index written 0 and written 0.0
SharingPrograms == SharingOn(Tok0) \cup SharingOn(Tok0p0)

\* a write through an index, as a host builds it, after  let x = 1.5;
\*   arr[5.5] = x;   arr[0.5] = x;   arr[-0.5] = x;   arr[-1.5] = x;
IndexWrites ==
    {<<StmtOf(<<TokLet, TokX, TokEqual, Tok1p5, TokSemicolon>>),
       AssignOf(<<TokArr, TokLBrack>> \o i \o <<TokRBrack>>, <<TokX>>)>> :
          i \in {<<Tok5p5>>, <<Tok0p5>>, <<TokMinus, Tok0p5>>, <<TokMinus, Tok1p5>>}}

\* print(o);  print(o);   and   o.b = x;  between the two, after  let x = 1.5;
PrintO == StmtOf(<<TokPrint, TokLParen, TokO, TokRParen, TokSemicolon>>)

PrintTwice ==
    {<<PrintO, PrintO>>,
     <<StmtOf(<<TokLet, TokX, TokEqual, Tok1p5, TokSemicolon>>), PrintO, PrintO>>}

Programs ==
    PoolPrograms \cup ExprPrograms \cup SharingPrograms \cup IndexWrites \cup PrintTwice

\* the environment New builds, and one in which the host has also bound an
\* Object to o and an Array to arr
NameO == <<"o">>
NameArr == <<"a", "r", "r">>
KeyB == <<"b">>
KeyC == <<"c">>

HostHeap ==
    <<[fields |-> [k \in {KeyB, KeyC} |-> IF k = KeyB THEN Flt(Float(1, 1)) ELSE Str(<<"s">>)]],
      [elems |-> <<Flt(Float(1, 1)), Flt(Float(2, 1))>>]>>

HostVars ==
    [n \in DOMAIN RegisterBuiltins \cup {NameO, NameArr} |->
        IF n = NameO THEN ObjectRef(1)
        ELSE IF n = NameArr THEN ArrayRef(2)
        ELSE RegisterBuiltins[n]]

\* an environment in which the host has bound to m an Object whose tiles is an
\* Array of one Object
NameM == <<"m">>
KeyTiles == <<"t", "i", "l", "e", "s">>
KeyTerrain == <<"t", "e", "r", "r", "a", "i", "n">>

NestedHeap ==
    <<[fields |-> [k \in {KeyTiles} |-> ArrayRef(2)]],
      [elems |-> <<ObjectRef(3)>>],
      [fields |-> [k \in {KeyTerrain} |-> Str(<<"p", "l", "a", "i", "n", "s">>)]]>>

NestedVars ==
    [n \in DOMAIN RegisterBuiltins \cup {NameM} |->
        IF n = NameM THEN ObjectRef(1) ELSE RegisterBuiltins[n]]

Environments ==
    {[vars |-> RegisterBuiltins, heap |-> <<>>], [vars |-> HostVars, heap |-> HostHeap],
     [vars |-> NestedVars, heap |-> NestedHeap]}

KeyOrders == {<<KeyB, KeyC>>, <<KeyC, KeyB>>}

(***************************************************************************)
(* Execute.  vpc is "new" before New has run, "ready" between New and      *)
(* Execute, "loop" at the head of Execute's loop over program.Stmts,       *)
(* "done" once Execute has returned result and "panic" when the            *)
(* evaluation ended in a run-time fault.  pcount is the number of          *)
(* statements the loop has passed, out the host's output, and evaluated    *)
(* records the outcome of every evalStmt call of the loop, in order.       *)
(***************************************************************************)
VMInit ==
    /\ LexerIdle /\ ParserIdle /\ RaceIdle
    /\ stmts = <<>> /\ vars = <<>> /\ heap = <<>> /\ pcount = 0
    /\ lastValue = Null /\ result = <<>> /\ out = <<>> /\ evaluated = <<>>
    /\ vpc = "new"

\* New(script), and what the host binds before it runs a program
NewVM ==
    /\ vpc = "new"
    /\ \E env \in Environments : vars' = env.vars /\ heap' = env.heap
    /\ vpc' = "ready"
    /\ UNCHANGED <<stmts, pcount, lastValue, result, out, evaluated, lexerVars,
                   parserVars, raceVars>>

\* Execute(program) up to its loop
ExecuteBegin ==
    /\ vpc = "ready"
    /\ stmts' \in Programs
    /\ lastValue' = Null
    /\ pcount' = 0
    /\ vpc' = "loop"
    /\ UNCHANGED <<vars, heap, result, out, evaluated, lexerVars, parserVars, raceVars>>

\* a loop that goes on to the next statement after an error: not what
\* Execute does
ExecuteLoopSkipsError ==
    /\ vpc = "loop"
    /\ pcount < Len(stmts)
    /\ \E keys \in KeyOrders :
       \E r \in {evalStmt([vars |-> vars, heap |-> heap, keys |-> keys],
                          stmts[pcount + 1])} :
          /\ out' = out \o r.out
          /\ evaluated' = Append(evaluated, [st |-> r.st, val |-> r.val, err |-> r.err])
          /\ vars' = r.vars
          /\ heap' = r.heap
          /\ IF r.st = "panic"
             THEN vpc' = "panic" /\ UNCHANGED <<pcount, lastValue, result, raceVars>>
             ELSE IF r.st = "err"
             THEN /\ pcount' = pcount + 1
                  /\ UNCHANGED <<result, vpc, lastValue, raceVars>>
             ELSE /\ lastValue' = IF r.val.t # "null" THEN r.val ELSE lastValue
                  /\ pcount' = pcount + 1
                  /\ UNCHANGED <<result, vpc, raceVars>>
    /\ UNCHANGED <<stmts, lexerVars, parserVars, raceVars>>

\* one round of the loop: evalStmt, the return of its error, or the update of
\* lastValue when the statement's value is not nil
ExecuteLoop ==
    /\ vpc = "loop"
    /\ pcount < Len(stmts)
    /\ \E keys \in KeyOrders :
       \E r \in {evalStmt([vars |-> vars, heap |-> heap, keys |-> keys],
                          stmts[pcount + 1])} :
          /\ out' = out \o r.out
          /\ evaluated' = Append(evaluated, [st |-> r.st, val |-> r.val, err |-> r.err])
          /\ vars' = r.vars
          /\ heap' = r.heap
          /\ IF r.st = "panic"
             THEN vpc' = "panic" /\ UNCHANGED <<pcount, lastValue, result, raceVars>>
             ELSE IF r.st = "err"
             THEN /\ result' = <<[value |-> Null, err |-> <<r.err>>]>>
                  /\ vpc' = "done"
                  /\ UNCHANGED <<pcount, lastValue, raceVars>>
             ELSE /\ lastValue' = IF r.val.t # "null" THEN r.val ELSE lastValue
                  /\ pcount' = pcount + 1
                  /\ UNCHANGED <<result, vpc, raceVars>>
    /\ UNCHANGED <<stmts, lexerVars, parserVars, raceVars>>

\* the loop is over and Execute returns lastValue
ExecuteReturn ==
    /\ vpc = "loop"
    /\ pcount = Len(stmts)
    /\ result' = <<[value |-> lastValue, err |-> <<>>]>>
    /\ vpc' = "done"
    /\ UNCHANGED <<stmts, vars, heap, pcount, lastValue, out, evaluated,
                   lexerVars, parserVars, raceVars>>

VMNext == NewVM \/ ExecuteBegin \/ ExecuteLoop \/ ExecuteReturn

VMSpec == VMInit /\ [][VMNext]_vars_all
\* C4: every NextToken call returns a token; none ends in a run-time fault
\* (a slice or index out of range), whatever the input bytes are.
C4_NextTokenNeverFaults == lpc # "panic"

\* C5: for every input AllTokens terminates and returns a token sequence whose
\* last token is end-of-file and that holds no other end-of-file token, and
\* every NextToken call that returns a token other than end-of-file advances
\* the read offset: AllTokens never stops without returning, the offsets of
\* the tokens returned so far increase strictly, and what it returns ends in
\* its only end-of-file token.
AllTokensShape ==
    /\ Len(allTokens) >= 1
    /\ allTokens[Len(allTokens)].Type = "EOF"
    /\ \A i \in 1..(Len(allTokens) - 1) : allTokens[i].Type # "EOF"

OffsetsAdvance ==
    \A i \in 1..(Len(allTokens) - 1) :
        allTokens[i].Pos.Offset < allTokens[i + 1].Pos.Offset

C5_AllTokensReturns ==
    /\ lpc \in {"new", "scan", "done"}
    /\ OffsetsAdvance
    /\ lpc = "done" => AllTokensShape

\* what remains of C5 when the faulting calls are set aside
AllTokensReturnsUnlessFault == OffsetsAdvance /\ (lpc = "done" => AllTokensShape)


\* C1: for every token sequence that ends in an end-of-file token ParseProgram
\* eventually returns, also when a token of the sequence cannot start a
\* statement or a primary expression: every run of New and ParseProgram
\* reaches the point where ParseProgram has stopped.
C1_ParseProgramReturns == <>(ppc \in {"done", "panic"})

\* C2: when the token sequence holds a structural error ParseProgram returns
\* an absent result at the first such error and parses nothing after it: once
\* parseStatement has failed, ParseProgram has returned and its result is nil.
C2_NilAtFirstError == sawError => (ppc = "done" /\ IsNil(program))

\* C3: a statement whose left side is a member or index chain followed by "="
\* is parsed as one AssignStmt whose target is the chain and whose value is
\* the right-hand expression: on the input  chain = 1;  no statement other
\* than that AssignStmt is ever appended to the program, and the program that
\* is returned holds exactly one statement.
IsChainAssignment == tokens \in {TokensOf(s) : s \in ChainAssignments}

ChainTarget == parseExpression(SubSeq(tokens, 1, Len(tokens) - 4), 0).node

ChainValue == NumberLit(tokens[Len(tokens) - 2].Pos, <<1>>, <<>>)

C3_ChainAssignment ==
    (IsChainAssignment /\ ppc \in {"loop", "done", "panic"}) =>
        /\ \A i \in 1..Len(program.Stmts) :
              program.Stmts[i] = AssignStmt(ChainTarget.Start, ChainTarget, ChainValue)
        /\ ppc = "done" => Len(program.Stmts) = 1

\* C6: for every token sequence ParseProgram completes without a run-time
\* fault: no parse function calls a method on a nil node.
C6_ParseProgramNeverFaults == ppc # "panic"

\* C7: for every Program and every environment Execute returns a value or a
\* RuntimeError: no evaluation ends in a run-time fault.
C7_ExecuteNeverFaults == vpc # "panic"

\* C8: when the evaluation of statement k returns a RuntimeError, Execute
\* returns that error at once and evaluates no statement after k: the failed
\* evalStmt call is the last one, Execute has returned, and its result is no
\* value and that error.
C8_ErrorAborts ==
    \A k \in 1..Len(evaluated) :
        evaluated[k].st = "err" =>
            /\ k = Len(evaluated)
            /\ vpc = "done"
            /\ result = <<[value |-> Null, err |-> <<evaluated[k].err>>]>>

\* an error in a statement that is not the first, with statements after it
C8_Witness ==
    /\ vpc = "done"
    /\ result[1].err # <<>>
    /\ Len(evaluated) >= 2
    /\ Len(evaluated) < Len(stmts)

\* C9: when a Program has executed without error, Execute returns the value of
\* the last statement that produced a value (one whose evalStmt value is not
\* nil); a LetStmt produces none, so the let statements that end a program
\* leave the value of the statement before them as the result.
Max(S) == CHOOSE m \in S : \A x \in S : x <= m

Produced == {i \in 1..Len(evaluated) : evaluated[i].val.t # "null"}

C9_LastValue ==
    (vpc = "done" /\ result[1].err = <<>>) =>
        /\ \A i \in 1..Len(stmts) :
              stmts[i].kind = "LetStmt" => evaluated[i].val.t = "null"
        /\ IF Produced = {} THEN result[1].value.t = "null"
           ELSE result[1].value = evaluated[Max(Produced)].val

\* a program that ends in a let and returns the value of an earlier statement
C9_Witness ==
    /\ vpc = "done"
    /\ result[1].err = <<>>
    /\ Len(stmts) >= 2
    /\ stmts[Len(stmts)].kind = "LetStmt"
    /\ result[1].value.t # "null"

\* C10: in a run of let statements, identifier assignments and identifier
\* reads that has met no error, a let succeeds whether or not its name is
\* bound, a read of x yields the value most recently bound to x by a let or
\* an assignment, an assignment yields the value it assigns and that value is
\* the running last value right after it; and  let x = 5; x = 10; x;  returns
\* Integer 10 and no error.
IsBinding(s) ==
    \/ s.kind = "LetStmt"
    \/ s.kind = "AssignStmt" /\ s.Target.kind = "Ident"

BoundName(s) == IF s.kind = "LetStmt" THEN s.Name.Name ELSE s.Target.Name

IsRead(s) == s.kind = "ExprStmt" /\ s.Value.kind = "Ident"

\* the statements C10 speaks of: the value bound is a number literal or
\* the value of an identifier
IsPlain(s) ==
    \/ IsBinding(s) /\ s.Value.kind \in {"NumberLit", "Ident"}
    \/ IsRead(s)

Binders(n, k) == {j \in 1..(k - 1) : IsBinding(stmts[j]) /\ BoundName(stmts[j]) = n}

\* the value most recently bound to n by the statements before the k-th
RECURSIVE Latest(_, _)
Latest(n, k) ==
    LET s == stmts[Max(Binders(n, k))]
    IN  IF s.Value.kind = "NumberLit" THEN NumberLitValue(s.Value)
        ELSE Latest(s.Value.Name, Max(Binders(n, k)))

\* the name the k-th statement reads, if it reads one: <<n>> or <<>>
NameRead(s) ==
    IF IsRead(s) THEN <<s.Value.Name>>
    ELSE IF IsBinding(s) /\ s.Value.kind = "Ident" THEN <<s.Value.Name>>
    ELSE <<>>

\* statements 1..k are plain, those before the k-th met no error, and the
\* k-th reads and assigns only names bound before it
PlainPrefix(k) ==
    /\ \A j \in 1..k : IsPlain(stmts[j])
    /\ \A j \in 1..(k - 1) : evaluated[j].st = "ok"
    /\ NameRead(stmts[k]) # <<>> => Binders(NameRead(stmts[k])[1], k) # {}
    /\ stmts[k].kind = "AssignStmt" => Binders(stmts[k].Target.Name, k) # {}

ExampleProgram ==
    <<StmtOf(<<TokLet, TokX, TokEqual, Tok5, TokSemicolon>>),
      StmtOf(<<TokX, TokEqual, Tok10, TokSemicolon>>),
      StmtOf(<<TokX, TokSemicolon>>)>>

UndefinedVariable(e, n) ==
    e.st = "err" /\ e.err.Message = <<"undefined variable: %s", n>>

\* the value of statement s is a literal or a bound identifier
ValueEvaluates(s) ==
    \/ s.Value.kind = "NumberLit"
    \/ s.Value.kind = "Ident" /\ s.Value.Name \in DOMAIN vars

C11_UndefinedVariable ==
    [][(vpc = "loop" /\ Len(evaluated') = Len(evaluated) + 1) =>
          LET s == stmts[pcount + 1]
              e == evaluated'[Len(evaluated')]
          IN  /\ (NameRead(s) # <<>> /\ NameRead(s)[1] \notin DOMAIN vars) =>
                    /\ UndefinedVariable(e, NameRead(s)[1])
                    /\ vars' = vars
              /\ (s.kind = "AssignStmt" /\ s.Target.kind = "Ident"
                    /\ s.Target.Name \notin DOMAIN vars /\ ValueEvaluates(s)) =>
                    /\ UndefinedVariable(e, s.Target.Name)
                    /\ s.Target.Name \notin DOMAIN vars'
                    /\ vars' = vars
                    /\ heap' = heap]_vars_all

\* an assignment to an unbound identifier has failed, and so has a read
C11_Witness ==
    /\ vpc = "done"
    /\ Len(evaluated) >= 1
    /\ LET s == stmts[Len(evaluated)]
       IN  /\ s.kind = "AssignStmt" /\ s.Target.kind = "Ident"
           /\ s.Value.kind = "NumberLit"
           /\ s.Target.Name \notin DOMAIN vars
           /\ UndefinedVariable(evaluated[Len(evaluated)], s.Target.Name)

\* C12: every statement form requires its terminating ";": ParseProgram takes
\* a statement into the program only when the last token the statement
\* consumed is ";", so neither  let x = 5 let y = 6  nor a final statement
\* without ";" yields statements of a Program.
C12_SemicolonRequired ==
    [][(ppc = "loop" /\ ppc' = "loop"
          /\ Len(program'.Stmts) = Len(program.Stmts) + 1) =>
          (pos' >= 1 /\ tokens[pos'].Type = "SEMICOLON")]_vars_all

\* the two let statements of  let x = 5 let b = 1  are both in the returned
\* Program
NoSemicolonAccepted ==
    /\ ppc = "done"
    /\ tokens = TokensOf(<<TokLet, TokX, TokEqual, Tok5, TokLet, TokB, TokEqual, Tok1>>)
    /\ Len(program.Stmts) = 2
    /\ \A i \in 1..2 : program.Stmts[i].kind = "LetStmt"

\* C13: a string or template literal whose closing delimiter is missing when
\* the end of the input is reached is returned as an ILLEGAL token that
\* carries the partial text, and the token after it is end-of-file: a token
\* that starts at a quote and whose text runs to the last byte of the input
\* has type ILLEGAL, its lexeme is the bytes after the quote, and EOF follows.
StartsAtQuote(tok) ==
    /\ tok.Pos.Offset < Len(input)
    /\ input[tok.Pos.Offset + 1] \in {DQ, SQ, BT}

RunsToEnd(tok) == tok.Pos.Offset + 1 + Len(tok.Lexeme) = Len(input)

Unterminated(tok) == StartsAtQuote(tok) /\ RunsToEnd(tok)

PartialText(tok) == tok.Lexeme = SubSeq(input, tok.Pos.Offset + 2, Len(input))

EOFFollows(i) == i < Len(allTokens) => allTokens[i + 1].Type = "EOF"

C13_UnterminatedIsIllegal ==
    \A i \in 1..Len(allTokens) :
        Unterminated(allTokens[i]) =>
            /\ allTokens[i].Type = "ILLEGAL"
            /\ PartialText(allTokens[i])
            /\ EOFFollows(i)

\* what the lexer does instead: the token keeps the type STRING or TEMPLATE
UnterminatedKeepsType ==
    \A i \in 1..Len(allTokens) :
        Unterminated(allTokens[i]) =>
            /\ allTokens[i].Type = IF input[allTokens[i].Pos.Offset + 1] = BT
                                   THEN "TEMPLATE" ELSE "STRING"
            /\ PartialText(allTokens[i])
            /\ EOFFollows(i)

\* C14: every token's position is 1-based and exact: its line is 1 plus the
\* number of newlines before its first byte, its column is 1 plus the number
\* of bytes between the start of that line and its first byte, and its offset
\* is the index of its first byte; a token at the first byte of the input
\* stands at line 1, column 1, offset 0.
NewlinesBefore(o) == Cardinality({j \in 1..o : j <= Len(input) /\ input[j] = NL})

\* the number of bytes up to and with the last newline before offset o
LineStart(o) ==
    LET nls == {j \in 1..o : j <= Len(input) /\ input[j] = NL}
    IN  IF nls = {} THEN 0 ELSE Max(nls)

\* the offset of tok is where its text stands in the input
AtFirstByte(tok) ==
    LET o == tok.Pos.Offset
    IN  CASE tok.Type = "EOF" -> o = Len(input) \/ (o < Len(input) /\ input[o + 1] = NUL)
          [] tok.Type \in {"STRING", "TEMPLATE"} ->
                o < Len(input) /\ input[o + 1] \in {DQ, SQ, BT}
          [] OTHER ->
                /\ o + Len(tok.Lexeme) <= Len(input)
                /\ SubSeq(input, o + 1, o + Len(tok.Lexeme)) = tok.Lexeme

C14_PositionsExact ==
    \A i \in 1..Len(allTokens) :
        LET tok == allTokens[i]
        IN  /\ AtFirstByte(tok)
            /\ tok.Pos.Line = 1 + NewlinesBefore(tok.Pos.Offset)
            /\ tok.Pos.Column = 1 + (tok.Pos.Offset - LineStart(tok.Pos.Offset))

\* what the lexer does instead, for the tokens other than end-of-file: line
\* and offset are exact and the column is one too many
ColumnOneTooMany ==
    \A i \in 1..Len(allTokens) :
        LET tok == allTokens[i]
        IN  tok.Type # "EOF" =>
                /\ AtFirstByte(tok)
                /\ tok.Pos.Line = 1 + NewlinesBefore(tok.Pos.Offset)
                /\ tok.Pos.Column = 2 + (tok.Pos.Offset - LineStart(tok.Pos.Offset))

\* C15: the parser lowers a template literal with a ${expr} span into
\* alternating TextPart and Interpolation parts, and the literal evaluates to
\* the concatenation, in source order, of the texts and the stringified values
\* of the interpolated expressions: the program  let x = 1.5;  followed by the
\* template  Value is ${1 + 2}  holds a TemplateLit of the text "Value is " and
\* an Interpolation, and returns the string "Value is 3".
TemplateExample ==
    <<StmtOf(<<TokLet, TokX, TokEqual, Tok1p5, TokSemicolon>>),
      StmtOf(<<TokTemplateSpan, TokSemicolon>>)>>

C15_TemplateInterpolation ==
    (stmts = TemplateExample /\ vpc \in {"loop", "done", "panic"}) =>
        /\ stmts[2].Value.kind = "TemplateLit"
        /\ Len(stmts[2].Value.Parts) = 2
        /\ stmts[2].Value.Parts[1].kind = "TextPart"
        /\ stmts[2].Value.Parts[1].Value = TextValueIs
        /\ stmts[2].Value.Parts[2].kind = "Interpolation"
        /\ vpc # "panic"
        /\ vpc = "done" => result = <<[value |-> Str(TextValueIs \o <<"3">>), err |-> <<>>]>>

\* what the parser and the interpreter do instead: the literal is one TextPart
\* of the raw text, and that text is the result
TemplateStaysRaw ==
    (stmts = TemplateExample /\ vpc = "done") =>
        /\ stmts[2].Value.Parts = <<TextPart(PositionAt(1), TokTemplateSpan.Lexeme)>>
        /\ result = <<[value |-> Str(TokTemplateSpan.Lexeme), err |-> <<>>]>>

\* a template a host has built of a text and an Interpolation evaluates to the
\* text followed by the stringified value:  Value is ${1.5 + 0.5}  is
\* "Value is 2"
HostTemplateConcatenates ==
    (stmts \in {<<TemplateExample[1], TemplateOf(TextValueIs, Tok1p5, Tok0p5)>>,
                <<TemplateExample[1], TemplateOf(TextValueIs, TokX, Tok0p5)>>}
        /\ vpc = "done") =>
        result = <<[value |-> Str(TextValueIs \o <<"2">>), err |-> <<>>]>>

\* a number as a Float
Promoted(v) == IF v.t = "int" THEN Float(v.v, 1) ELSE v.v

\* C16: for + - * on two numeric operands the result is an Integer when both
\* operands are Integers and a Float when either is a Float, and / yields a
\* Float for every pair of numeric operands (the divisor not zero): a
\* statement  a op b;  of two number literals evaluates without error to that
\* value, so  5 + 3  is Integer 8,  5.0 + 3  is Float 8.0 and  20 / 4  is
\* Float 5.0.
IsArithmetic(s) ==
    /\ s.kind = "ExprStmt"
    /\ s.Value.kind = "BinaryExpr"
    /\ s.Value.Left.kind = "NumberLit"
    /\ s.Value.Right.kind = "NumberLit"
    /\ s.Value.Operator \in {<<"+">>, <<"-">>, <<"*">>, <<"/">>}
    /\ s.Value.Operator = <<"/">> => ~FZero(Promoted(NumberLitValue(s.Value.Right)))

Promotion(op, a, b) ==
    IF op = <<"/">> THEN Flt(FDiv(Promoted(a), Promoted(b)))
    ELSE IF a.t = "int" /\ b.t = "int"
    THEN Integer(CASE op = <<"+">> -> a.v + b.v
                   [] op = <<"-">> -> a.v - b.v
                   [] OTHER -> a.v * b.v)
    ELSE Flt(CASE op = <<"+">> -> FAdd(Promoted(a), Promoted(b))
               [] op = <<"-">> -> FSub(Promoted(a), Promoted(b))
               [] OTHER -> FMul(Promoted(a), Promoted(b)))

C16_NumericPromotion ==
    \A k \in 1..Len(evaluated) :
        IsArithmetic(stmts[k]) =>
            /\ evaluated[k].st = "ok"
            /\ evaluated[k].val =
                  Promotion(stmts[k].Value.Operator,
                            NumberLitValue(stmts[k].Value.Left),
                            NumberLitValue(stmts[k].Value.Right))

\* what holds instead: the rule as far as both operands are Floats
FloatArithmetic ==
    \A k \in 1..Len(evaluated) :
        (IsArithmetic(stmts[k]) /\ NumberLitValue(stmts[k].Value.Left).t = "float"
            /\ NumberLitValue(stmts[k].Value.Right).t = "float") =>
            /\ evaluated[k].st = "ok"
            /\ evaluated[k].val =
                  Promotion(stmts[k].Value.Operator,
                            NumberLitValue(stmts[k].Value.Left),
                            NumberLitValue(stmts[k].Value.Right))

\* 5 + 3;  5.0 + 3;  and  20 / 4;  each end in a run-time fault
PromotionExamplesFault ==
    (Len(evaluated) = 2
        /\ stmts[2] \in {StmtOf(<<Tok5, TokPlus, Tok3, TokSemicolon>>),
                        StmtOf(<<Tok5p0, TokPlus, Tok3, TokSemicolon>>),
                        StmtOf(<<Tok20, TokSlash, Tok4, TokSemicolon>>)}) =>
        evaluated[2].st = "panic"

\* ---------------------------------------------------------------------------
\* A source text through the lexer, the parser and the VM, as evalProgram runs
\* it: getAllTokens, parseInput, Execute on a new VM

MaxWhole == 2

MaxDecimals == 1

Digits == {"0", "1", "2", "3", "4", "5"}

DigitTexts(n) == UNION {[1..k -> Digits] : k \in 1..n}

\* numeric literals: digits, or digits "." digits
NumberTexts ==
    DigitTexts(MaxWhole)
        \cup {w \o <<".">> \o f : w \in DigitTexts(MaxWhole), f \in DigitTexts(MaxDecimals)}

\* each literal as a bare expression, with and without its semicolon
Sources == NumberTexts \cup {t \o <<";">> : t \in NumberTexts}

\* getAllTokens(input): lexer.New over the source text
getAllTokens ==
    /\ lpc = "new"
    /\ input' \in Sources
    /\ LET l == New(input')
       IN  /\ position' = l.position /\ readPos' = l.readPos
           /\ ch' = l.ch /\ line' = l.line /\ column' = l.column
    /\ lpc' = "scan"
    /\ UNCHANGED <<allTokens, parserVars, vmVars, raceVars>>

\* parseInput(input): parser.New over the tokens AllTokens returned
parseInput ==
    /\ lpc = "done"
    /\ ppc = "idle"
    /\ tokens' = allTokens
    /\ pos' = 0
    /\ ppc' = "begin"
    /\ UNCHANGED <<program, sawError, checked, lexerVars, vmVars, raceVars>>

\* evalProgram(input): New("test"), then Execute(program) up to its loop
evalProgram ==
    /\ ppc = "done"
    /\ vpc = "idle"
    /\ vars' = RegisterBuiltins
    /\ heap' = <<>>
    /\ stmts' = program.Stmts
    /\ lastValue' = Null
    /\ pcount' = 0
    /\ vpc' = "loop"
    /\ UNCHANGED <<result, out, evaluated, lexerVars, parserVars, raceVars>>

EvalProgramNext ==
    \/ getAllTokens \/ AllTokensStep
    \/ parseInput \/ ParseProgramBegin \/ ParseProgramLoop \/ ParseProgramReturn
    \/ evalProgram \/ ExecuteLoop \/ ExecuteReturn

EvalProgramSpec == LexerInit /\ [][EvalProgramNext]_vars_all

\* ---------------------------------------------------------------------------
\* C17: a numeric literal of digits only, lexed, parsed and evaluated as a bare
\* expression, yields the Integer whose decimal notation it is, and a literal
\* with a fractional part yields the Float it denotes: integer parsing of the
\* lexeme is tried first and float parsing only when that fails.  The literals
\* are the valid ones, whose value fits an Integer.

\* the literal of a source text, without its semicolon
LiteralOf(src) ==
    IF src # <<>> /\ src[Len(src)] = ";" THEN SubSeq(src, 1, Len(src) - 1) ELSE src

DecimalDigit == [c \in Digits |-> CASE c = "0" -> 0 [] c = "1" -> 1 [] c = "2" -> 2
                                    [] c = "3" -> 3 [] c = "4" -> 4 [] OTHER -> 5]

\* the number a text of digits denotes, read from the left
RECURSIVE Denotes(_, _)
Denotes(s, acc) ==
    IF s = <<>> THEN acc ELSE Denotes(Tail(s), 10 * acc + DecimalDigit[Head(s)])

DotAt(s) == {i \in 1..Len(s) : s[i] = "."}

\* what a literal denotes: an Integer, or a Float as a fraction in lowest terms
LiteralValue(s) ==
    IF DotAt(s) = {} THEN Integer(Denotes(s, 0))
    ELSE LET d == CHOOSE i \in DotAt(s) : TRUE
             scaled == Denotes(SubSeq(s, 1, d - 1) \o SubSeq(s, d + 1, Len(s)), 0)
         IN  Flt(Float(scaled, Pow10(Len(s) - d)))

DividesByZero(s) ==
    /\ s.kind = "ExprStmt"
    /\ s.Value.kind = "BinaryExpr"
    /\ s.Value.Left.kind = "NumberLit"
    /\ s.Value.Right.kind = "NumberLit"
    /\ s.Value.Operator \in {<<"/">>, <<"%">>}
    /\ FZero(Promoted(NumberLitValue(s.Value.Right)))

ByZeroMessage(op) == IF op = <<"/">> THEN <<"division by zero">> ELSE <<"modulus by zero">>

\* the statements are one to a line:  a op b;  has its operator as token 2
OperatorPos == PositionAt(2)

C18_ByZeroAtOperator ==
    \A k \in 1..Len(evaluated) :
        DividesByZero(stmts[k]) =>
            /\ evaluated[k].st = "err"
            /\ evaluated[k].err.Message = ByZeroMessage(stmts[k].Value.Operator)
            /\ evaluated[k].err.Pos = OperatorPos

\* what holds instead: with a Float zero the error and its message are as
\* stated, and its position is the left operand's (the statement's first
\* token); with an Integer zero the evaluation ends in a run-time fault
ByZeroAtLeftOperand ==
    \A k \in 1..Len(evaluated) :
        DividesByZero(stmts[k]) =>
            IF NumberLitValue(stmts[k].Value.Right).t = "float"
            THEN /\ evaluated[k].st = "err"
                 /\ evaluated[k].err.Message = ByZeroMessage(stmts[k].Value.Operator)
                 /\ evaluated[k].err.Pos = stmts[k].Value.Left.Start
                 /\ evaluated[k].err.Pos = PositionAt(1)
            ELSE evaluated[k].st = "panic"

\* 5.5 / 0.0;  and  5 % 0;  have been evaluated
ByZeroExamples ==
    /\ Len(evaluated) = 2
    /\ stmts[2] \in {StmtOf(<<Tok5p5, TokSlash, Tok0p0, TokSemicolon>>),
                    StmtOf(<<Tok5, TokPercent, Tok0, TokSemicolon>>)}

\* ---------------------------------------------------------------------------
\* C19: evaluating a CallExpr evaluates the callee first and fails with the
\* RuntimeError "value is not callable" when it is no Callable; otherwise the
\* arguments are evaluated left to right, all before the invocation, so the
\* first argument that fails decides the outcome and nothing is invoked; a
\* built-in of fixed arity called with another number of arguments returns
\* the arity error without running its body, and the variadic print (arity
\* -1) accepts any number of arguments.
IsCall(s) == s.kind = "ExprStmt" /\ s.Value.kind = "CallExpr"

\* the environment a statement is evaluated in
Here == [vars |-> vars, heap |-> heap, keys |-> CHOOSE k \in KeyOrders : TRUE]

FailingArgs(e) == {i \in 1..Len(e.Args) : evalExpr(Here, e.Args[i]).st # "ok"}

FirstOf(S) == CHOOSE i \in S : \A j \in S : i <= j

SameOutcome(e, r) == e.st = r.st /\ e.err = r.err

ArityError(e, name, n) ==
    /\ e.st = "err"
    /\ e.err.Message = <<"%s expects %d arguments, got %d", name,
                         FormatInt(BuiltinArity(name)), FormatInt(n)>>

CallOutcome(c, e) ==
    LET callee == evalExpr(Here, c.Callee)
    IN  IF callee.st # "ok" THEN SameOutcome(e, callee) /\ out' = out
        ELSE IF callee.val.t # "callable"
        THEN /\ e.st = "err"
             /\ e.err.Message = <<"value is not callable">>
             /\ out' = out
        ELSE IF FailingArgs(c) # {}
        THEN /\ SameOutcome(e, evalExpr(Here, c.Args[FirstOf(FailingArgs(c))]))
             /\ out' = out
        ELSE IF BuiltinArity(callee.val.v) >= 0
                /\ Len(c.Args) # BuiltinArity(callee.val.v)
        THEN ArityError(e, callee.val.v, Len(c.Args)) /\ out' = out
        ELSE IF BuiltinArity(callee.val.v) < 0
        THEN e.st = "ok" /\ Len(out') = Len(out) + 1
        ELSE e.st = "err" /\ ~ArityError(e, callee.val.v, Len(c.Args))

C19_CallOrder ==
    [][(vpc = "loop" /\ Len(evaluated') = Len(evaluated) + 1
          /\ IsCall(stmts[pcount + 1])) =>
          CallOutcome(stmts[pcount + 1].Value, evaluated'[Len(evaluated')])]_vars_all

\* x(o) has failed as not callable with o unbound, print(y, o) has failed on
\* y, load(s, s) has failed on its arity, and print(1.5, s) has printed
C19_Witness ==
    /\ Len(evaluated) = 2
    /\ IsCall(stmts[2])
    /\ stmts[2].Value.Callee.kind = "Ident"
    /\ LET e == evaluated[2]
           c == stmts[2].Value
       IN  \/ /\ c.Callee.Name = <<"x">> /\ Len(c.Args) = 1
              /\ c.Args[1].kind = "Ident" /\ c.Args[1].Name = NameO
              /\ NameO \notin DOMAIN vars
              /\ e.err.Message = <<"value is not callable">>
           \/ /\ c.Callee.Name = NamePrint /\ Len(c.Args) = 2
              /\ c.Args[1].kind = "Ident" /\ c.Args[1].Name = <<"y">>
              /\ c.Args[2].kind = "Ident" /\ c.Args[2].Name = NameO
              /\ NameO \notin DOMAIN vars
              /\ UndefinedVariable(e, <<"y">>)
           \/ /\ c.Callee.Name = NameLoad /\ Len(c.Args) = 2
              /\ ArityError(e, NameLoad, 2)
           \/ /\ c.Callee.Name = NamePrint /\ Len(c.Args) = 2
              /\ e.st = "ok" /\ Len(out) = 1

\* ---------------------------------------------------------------------------
\* C20: Arrays and Objects are shared by reference: after a second binding
\* holds the same container (let a = m;), an assignment through a member or
\* index path reached from one binding (m.tiles[0].terrain = "mountain";) is
\* visible through the other binding, and let, assignment and reads copy no
\* container: the three statements run without error, the read through a
\* yields the assigned value, and a and the first binding hold one container.
NameA == <<"a">>

\* the binding whose container the program shares is a container of the host
Holds ==
    /\ stmts[1].Value.Name \in DOMAIN vars
    /\ vars[stmts[1].Value.Name].t \in {"object", "array"}

Shared ==
    /\ Len(evaluated) = 3
    /\ \A k \in 1..3 : evaluated[k].st = "ok"
    /\ evaluated[3].val = Str(TokMountain.Lexeme)
    /\ vars[NameA] = vars[stmts[1].Value.Name]
    /\ Len(heap) \in {Len(HostHeap), Len(NestedHeap)}

SharedThroughFloatIndex ==
    (vpc = "done" /\ stmts \in SharingOn(Tok0p0) /\ Holds) => Shared

IntegerIndexRejected ==
    (vpc = "done" /\ stmts \in SharingOn(Tok0) \ SharingOn(Tok0p0) /\ Holds) =>
        /\ Len(evaluated) = 2
        /\ evaluated[2].st = "err"
        /\ evaluated[2].err.Message = <<"array index must be a number">>
        /\ heap \in {HostHeap, NestedHeap}

\* m.tiles[0].terrain = "mountain";  has failed after  let a = m;
NestedAssignmentFails ==
    /\ vpc = "done"
    /\ stmts \in SharingOn(Tok0) \ SharingOn(Tok0p0)
    /\ NameM \in DOMAIN vars
    /\ Len(evaluated) = 2
    /\ evaluated[2].st = "err"

\* m.tiles[0.0].terrain = "mountain";  is read as mountain through a
NestedAssignmentShared ==
    /\ vpc = "done"
    /\ stmts \in SharingOn(Tok0p0)
    /\ NameM \in DOMAIN vars
    /\ Shared
    /\ heap[3].fields[KeyTerrain] = Str(TokMountain.Lexeme)

\* ---------------------------------------------------------------------------
\* C21: no access falls outside a container: a read or write of an Array with
\* an index outside [0, len), and a read of an Object field or key that is
\* absent, ends in a RuntimeError; no such access yields a value, and a
\* failed Array write leaves the Array as it was.

\* the value of an expression that evaluates without error, else Null
ValueOf(e) == IF evalExpr(Here, e).st = "ok" THEN evalExpr(Here, e).val ELSE Null

\* the Float f is outside [0, n)
Outside(f, n) == FLess(f, Float(0, 1)) \/ ~FLess(f, Float(n, 1))

\* x is an IndexExpr of an Array and a Float index outside its bounds
OutsideArray(x) ==
    /\ x.kind = "IndexExpr"
    /\ ValueOf(x.Target).t = "array"
    /\ ValueOf(x.Index).t = "float"
    /\ Outside(ValueOf(x.Index).v, Len(heap[ValueOf(x.Target).v].elems))

\* x reads a field or a string key the Object does not have
AbsentKey(x) ==
    \/ /\ x.kind = "MemberExpr"
       /\ ValueOf(x.Object).t = "object"
       /\ x.Field.Name \notin DOMAIN heap[ValueOf(x.Object).v].fields
    \/ /\ x.kind = "IndexExpr"
       /\ ValueOf(x.Target).t = "object"
       /\ ValueOf(x.Index).t = "string"
       /\ ValueOf(x.Index).v \notin DOMAIN heap[ValueOf(x.Target).v].fields

C21_NoAccessOutside ==
    [][(vpc = "loop" /\ Len(evaluated') = Len(evaluated) + 1) =>
          LET s == stmts[pcount + 1]
              e == evaluated'[Len(evaluated')]
          IN  /\ (s.kind = "ExprStmt" /\ (OutsideArray(s.Value) \/ AbsentKey(s.Value))) =>
                    e.st = "err"
              /\ (s.kind = "AssignStmt" /\ ValueOf(s.Value).t # "null"
                    /\ OutsideArray(s.Target)) =>
                    (e.st = "err" /\ heap' = heap)]_vars_all

\* what holds instead: the index is truncated toward zero before it is
\* compared, so it is the truncated index that is never outside
TruncatedOutside(x) ==
    /\ OutsideArray(x)
    /\ \/ Trunc(ValueOf(x.Index).v) < 0
       \/ Trunc(ValueOf(x.Index).v) >= Len(heap[ValueOf(x.Target).v].elems)

NoTruncatedAccessOutside ==
    [][(vpc = "loop" /\ Len(evaluated') = Len(evaluated) + 1) =>
          LET s == stmts[pcount + 1]
              e == evaluated'[Len(evaluated')]
          IN  /\ (s.kind = "ExprStmt"
                    /\ (TruncatedOutside(s.Value) \/ AbsentKey(s.Value))) =>
                    e.st = "err"
              /\ (s.kind = "ExprStmt" /\ OutsideArray(s.Value)
                    /\ ~TruncatedOutside(s.Value)) =>
                    (e.st = "ok" /\ e.val = heap[ValueOf(s.Value.Target).v].elems[1])
              /\ (s.kind = "AssignStmt" /\ ValueOf(s.Value).t # "null"
                    /\ TruncatedOutside(s.Target)) =>
                    (e.st = "err" /\ heap' = heap)
              /\ (s.kind = "AssignStmt" /\ ValueOf(s.Value).t # "null"
                    /\ OutsideArray(s.Target) /\ ~TruncatedOutside(s.Target)) =>
                    (e.st = "ok"
                       /\ heap'[ValueOf(s.Target.Target).v].elems[1] = ValueOf(s.Value))]_vars_all

\* arr[-0.5];  has been read as the first element, and  arr[-0.5] = x;  has
\* written it
NegativeFractionAccepted ==
    /\ Len(evaluated) = 2
    /\ evaluated[2].st = "ok"
    /\ \/ /\ stmts[2] = StmtOf(<<TokArr, TokLBrack, TokMinus, Tok0p5, TokRBrack, TokSemicolon>>)
          /\ evaluated[2].val = HostHeap[2].elems[1]
       \/ /\ stmts[2].kind = "AssignStmt"
          /\ stmts \in IndexWrites
          /\ stmts[2].Target.Index.kind = "UnaryExpr"
          /\ heap[2].elems[1] = vars[<<"x">>]

\* ---------------------------------------------------------------------------
\* AST validation (wjs/ast/helpers.go).  CheckValid returns nil, an error, or
\* ends in a run-time fault: its default case calls n.Pos(), which faults on
\* a nil node.
Valid == [st |-> "ok", msg |-> ""]

Invalid(msg) == [st |-> "err", msg |-> msg]

Faulted == [st |-> "panic", msg |-> ""]

checkValidLHS(e) ==
    IF e.kind \in {"Ident", "MemberExpr", "IndexExpr"} THEN Valid
    ELSE Invalid("invalid left-hand side: must be identifier, member, or index")

RECURSIVE CheckValid(_)
RECURSIVE CheckValidEach(_, _)

\* the loop over a list of nodes, from the i-th on: the first error is returned
CheckValidEach(nodes, i) ==
    IF i > Len(nodes) THEN Valid
    ELSE Let(CheckValid(nodes[i]), LAMBDA err :
             IF err.st # "ok" THEN err ELSE CheckValidEach(nodes, i + 1))

CheckValid(n) ==
    CASE n.kind = "Program" -> CheckValidEach(n.Stmts, 1)
      [] n.kind = "LetStmt" ->
            IF IsNil(n.Name) \/ n.Name.Name = <<>>
            THEN Invalid("invalid let statement at %d:%d: missing variable name")
            ELSE CheckValid(n.Value)
      [] n.kind = "AssignStmt" ->
            IF checkValidLHS(n.Target).st # "ok"
            THEN Invalid("invalid assignment target at %d:%d: %w")
            ELSE CheckValid(n.Value)
      [] n.kind = "ExprStmt" -> CheckValid(n.Value)
      [] n.kind = "BinaryExpr" ->
            IF IsNil(n.Left) \/ IsNil(n.Right)
            THEN Invalid("incomplete binary expression at %d:%d")
            ELSE Let(CheckValid(n.Left), LAMBDA err :
                     IF err.st # "ok" THEN err ELSE CheckValid(n.Right))
      [] n.kind = "UnaryExpr" ->
            IF IsNil(n.Operand)
            THEN Invalid("missing operand in unary expression at %d:%d")
            ELSE CheckValid(n.Operand)
      [] n.kind = "CallExpr" ->
            Let(CheckValid(n.Callee), LAMBDA err :
                IF err.st # "ok" THEN err ELSE CheckValidEach(n.Args, 1))
      [] n.kind = "MemberExpr" ->
            Let(CheckValid(n.Object), LAMBDA err :
                IF err.st # "ok" THEN err
                ELSE IF IsNil(n.Field) \/ n.Field.Name = <<>>
                THEN Invalid("invalid member field at %d:%d")
                ELSE Valid)
      [] n.kind = "IndexExpr" ->
            Let(CheckValid(n.Target), LAMBDA err :
                IF err.st # "ok" THEN err ELSE CheckValid(n.Index))
      [] n.kind = "TemplateLit" ->
            IF Len(n.Parts) = 0 THEN Invalid("empty template string at %d:%d")
            ELSE CheckValidEach(n.Parts, 1)
      [] n.kind = "Interpolation" ->
            IF IsNil(n.Expr) THEN Invalid("missing expression in interpolation at %d:%d")
            ELSE CheckValid(n.Expr)
      [] n.kind = "TextPart" -> Valid
      [] n.kind = "Ident" ->
            IF n.Name = <<>> THEN Invalid("empty identifier at %d:%d") ELSE Valid
      [] n.kind \in {"NumberLit", "StringLit"} -> Valid
      [] OTHER ->
            IF IsNil(n) THEN Faulted
            ELSE Invalid("unknown or unsupported AST node at %v")

\* the trees a host builds.  At is where every node of them starts
At == PositionAt(1)

IdentX == Ident(At, <<"x">>)

IdentB == Ident(At, <<"b">>)

NumberOne == NumberLit(At, <<1>>, <<>>)

\* an identifier with an empty name, a binary or unary expression with a
\* missing operand, a template literal with no parts, an interpolation with
\* no expression, a member expression with an empty or missing field name
Flaws ==
    {Ident(At, <<>>),
     BinaryExpr(At, Nil, <<"+">>, NumberOne),
     BinaryExpr(At, NumberOne, <<"+">>, Nil),
     UnaryExpr(At, <<"-">>, Nil),
     TemplateLit(At, <<>>),
     TemplateLit(At, <<Interpolation(At, Nil)>>),
     MemberExpr(At, IdentX, Ident(At, <<>>)),
     MemberExpr(At, IdentX, Nil)}

\* the expressions that are e or hold e as an operand, callee, argument,
\* object, target, index or interpolated expression
Around(e) ==
    {e,
     BinaryExpr(At, e, <<"+">>, NumberOne),
     BinaryExpr(At, NumberOne, <<"+">>, e),
     UnaryExpr(At, <<"-">>, e),
     CallExpr(At, e, <<>>),
     CallExpr(At, IdentX, <<NumberOne, e>>),
     MemberExpr(At, e, IdentB),
     IndexExpr(At, e, NumberOne),
     IndexExpr(At, IdentX, e),
     TemplateLit(At, <<TextPart(At, <<"t">>), Interpolation(At, e)>>)}

\* the statements that hold the expression c as their value
HoldingValue(c) == {ExprStmt(At, c), LetStmt(At, IdentX, c), AssignStmt(At, IdentX, c)}

\* a program of one statement, or of that statement after  x;
ProgramsOf(ss) ==
    {Program(At, <<s>>) : s \in ss} \cup {Program(At, <<ExprStmt(At, IdentX), s>>) : s \in ss}

\* a flaw in a statement's value
FlawedValues == ProgramsOf(UNION {HoldingValue(c) : c \in UNION {Around(e) : e \in Flaws}})

\* a flaw in an assignment's target, the target being an identifier, a
\* member expression or an index expression
FlawedTargets ==
    ProgramsOf({AssignStmt(At, c, NumberOne) :
                   c \in {a \in UNION {Around(e) : e \in Flaws} :
                             a.kind \in {"Ident", "MemberExpr", "IndexExpr"}}})

\* an assignment target that is no identifier, member or index expression,
\* and a let of an identifier with an empty name
FlawedStatements ==
    ProgramsOf({AssignStmt(At, NumberOne, NumberOne),
                AssignStmt(At, BinaryExpr(At, IdentX, <<"+">>, NumberOne), NumberOne),
                AssignStmt(At, CallExpr(At, IdentX, <<>>), NumberOne),
                LetStmt(At, Ident(At, <<>>), NumberOne)})

InvalidTrees == FlawedValues \cup FlawedTargets \cup FlawedStatements

\* the same trees around an identifier and a number
ValidTrees ==
    ProgramsOf(UNION {HoldingValue(c) : c \in Around(IdentX) \cup Around(NumberOne)}
               \cup {AssignStmt(At, c, NumberOne) :
                        c \in {IdentX, MemberExpr(At, IdentX, IdentB),
                               IndexExpr(At, IdentX, NumberOne)}})

\* a host builds a tree
BuildProgram ==
    /\ ppc = "new"
    /\ program' \in InvalidTrees \cup ValidTrees
    /\ ppc' = "done"
    /\ UNCHANGED <<tokens, pos, sawError, checked, lexerVars, vmVars, raceVars>>

\* CheckValid(program), on what a host has built or ParseProgram has returned
CheckValidCall ==
    /\ ppc = "done"
    /\ checked = <<>>
    /\ \E err \in {CheckValid(program)} : checked' = <<err>>
    /\ UNCHANGED <<tokens, pos, program, ppc, sawError, lexerVars, vmVars, raceVars>>

\* syntactically valid source, one statement to a line:  e;  let x = e;
\* x = e;  with e a literal, an identifier, a + b, -a, !a, print(a), x.b, x[a]
\* or an expression of more than one operator
TokFalse == Tok("FALSE", <<"f", "a", "l", "s", "e">>)

\* expressions of more than one operator:  a op b op x,  -a op b,  a op -b,
\* -a.b,  -a(1),  -a[0],  a op b.x,  a op b(1),  a op b[0],  a.b[0](1),
\* a(1).b
UnaryOperators == {TokMinus, TokBang}

TwoOperators == {<<TokA, op1, TokB, op2, TokX>> : op1 \in Operators, op2 \in Operators}

UnaryLeft == {<<u, TokA, op, TokB>> : u \in UnaryOperators, op \in Operators}

UnaryRight == {<<TokA, op, u, TokB>> : u \in UnaryOperators, op \in Operators}

Postfixes == {<<TokDot, TokX>>, <<TokLParen, Tok1, TokRParen>>, <<TokLBrack, Tok0, TokRBrack>>}

UnaryPostfix == {<<u, TokA>> \o f : u \in UnaryOperators, f \in Postfixes}

BinaryPostfix == {<<TokA, op, TokB>> \o f : op \in Operators, f \in Postfixes}

PostfixChains ==
    {<<TokA, TokDot, TokB, TokLBrack, Tok0, TokRBrack, TokLParen, Tok1, TokRParen>>,
     <<TokA, TokLParen, Tok1, TokRParen, TokDot, TokB>>}

PrecedenceExpressions ==
    TwoOperators \cup UnaryLeft \cup UnaryRight \cup UnaryPostfix \cup BinaryPostfix
        \cup PostfixChains

Primaries == {TokX, Tok1, Tok1p5, TokStr, TokTemplate, TokTrue, TokFalse, TokNull}

ValidExpressions ==
    {<<a>> : a \in Primaries}
    \cup {<<a, TokPlus, b>> : a \in Primaries, b \in {TokX, Tok1, TokTrue}}
    \cup {<<op, a>> : op \in {TokMinus, TokBang}, a \in Primaries}
    \cup {<<TokPrint, TokLParen, a, TokRParen>> : a \in Primaries}
    \cup {<<TokX, TokDot, TokB>>}
    \cup {<<TokX, TokLBrack, a, TokRBrack>> : a \in Primaries}
    \cup PrecedenceExpressions

ValidLines ==
    {e \o <<TokSemicolon>> : e \in ValidExpressions}
    \cup {<<TokLet, TokX, TokEqual>> \o e \o <<TokSemicolon>> : e \in ValidExpressions}
    \cup {<<TokX, TokEqual>> \o e \o <<TokSemicolon>> : e \in ValidExpressions}

\* New(tokens) on the tokens of valid source
NewParserValid ==
    /\ ppc = "new"
    /\ tokens' \in {TokensOf(s) : s \in ValidLines}
    /\ pos' = 0
    /\ ppc' = "begin"
    /\ UNCHANGED <<program, sawError, checked, lexerVars, vmVars, raceVars>>

CheckNext ==
    \/ BuildProgram \/ CheckValidCall
    \/ NewParserValid \/ ParseProgramBegin \/ ParseProgramLoop \/ ParseProgramReturn

CheckSpec == ParserInit /\ [][CheckNext]_vars_all

\* ---------------------------------------------------------------------------
\* C22: CheckValid returns an error for every Program that holds, anywhere in
\* its tree (statement values, operands, call arguments, assignment targets),
\* an identifier with an empty name, a binary or unary expression with a
\* missing operand, an assignment target that is no Ident, MemberExpr or
\* IndexExpr, a template literal with no parts, an interpolation with no
\* expression, or a member expression with an empty field name.
HostBuilt == tokens = <<>> /\ checked # <<>>

C22_CheckValidRejects ==
    (HostBuilt /\ program \in InvalidTrees) => checked[1].st = "err"

\* what holds instead: a flaw is rejected in a statement's value and as a
\* statement's own shape, at any depth, and accepted anywhere in an
\* assignment's target, which CheckValid never walks
TargetsNotWalked ==
    HostBuilt =>
        /\ program \in FlawedValues \cup FlawedStatements => checked[1].st = "err"
        /\ program \in FlawedTargets \cup ValidTrees => checked[1].st = "ok"

\* an assignment to an identifier with an empty name has been accepted
EmptyTargetAccepted ==
    /\ HostBuilt
    /\ program = Program(At, <<AssignStmt(At, Ident(At, <<>>), NumberOne)>>)
    /\ checked[1].st = "ok"

\* ---------------------------------------------------------------------------
\* C28: CheckValid accepts what the parser builds: for every Program that
\* ParseProgram returns from syntactically valid source, CheckValid returns
\* ok, also when the source holds the literals true, false or null.
Parsed == tokens # <<>> /\ checked # <<>>

C28_CheckValidAcceptsParsed == Parsed => checked[1].st = "ok"

HasKeywordLiteral ==
    \E i \in 1..Len(tokens) : tokens[i].Type \in {"TRUE", "FALSE", "NULL"}

\* what holds instead: the parsed program is accepted exactly when its source
\* has no true, false or null, and with one of them CheckValid returns the
\* error of its default case
KeywordLiteralsRejected ==
    Parsed =>
        IF HasKeywordLiteral
        THEN checked[1] = Invalid("unknown or unsupported AST node at %v")
        ELSE checked[1].st = "ok"

\* the program of  true;  has been rejected, and that of  let x = 1;  accepted
KeywordLiteralChecked ==
    /\ Parsed
    /\ \/ /\ tokens = TokensOf(<<TokTrue, TokSemicolon>>)
          /\ program.Stmts[1].Value.kind = "BooleanLit"
          /\ checked[1].st = "err"
       \/ /\ tokens = TokensOf(<<TokLet, TokX, TokEqual, Tok1, TokSemicolon>>)
          /\ checked[1].st = "ok"

\* ---------------------------------------------------------------------------
\* C23: every node of a Program the parser returns is fully formed: no
\* statement value, binary or unary operand, callee, call argument, member
\* object, index target or index is nil, for every token sequence, also for
\* an argument list with a missing argument such as  a(1,)  or  a(,).

\* no node under n is nil; with lax, a nil call argument is let pass
RECURSIVE Formed(_, _)
Formed(n, lax) ==
    CASE n.kind = "nil" -> FALSE
      [] n.kind = "LetStmt" -> Formed(n.Name, lax) /\ Formed(n.Value, lax)
      [] n.kind = "AssignStmt" -> Formed(n.Target, lax) /\ Formed(n.Value, lax)
      [] n.kind = "ExprStmt" -> Formed(n.Value, lax)
      [] n.kind = "BinaryExpr" -> Formed(n.Left, lax) /\ Formed(n.Right, lax)
      [] n.kind = "UnaryExpr" -> Formed(n.Operand, lax)
      [] n.kind = "CallExpr" ->
            /\ Formed(n.Callee, lax)
            /\ \A i \in 1..Len(n.Args) :
                  (lax /\ IsNil(n.Args[i])) \/ Formed(n.Args[i], lax)
      [] n.kind = "MemberExpr" -> Formed(n.Object, lax) /\ Formed(n.Field, lax)
      [] n.kind = "IndexExpr" -> Formed(n.Target, lax) /\ Formed(n.Index, lax)
      [] n.kind = "TemplateLit" -> \A i \in 1..Len(n.Parts) : Formed(n.Parts[i], lax)
      [] n.kind = "Interpolation" -> Formed(n.Expr, lax)
      [] OTHER -> TRUE

C23_FullyFormed ==
    ~IsNil(program) => \A i \in 1..Len(program.Stmts) : Formed(program.Stmts[i], FALSE)

\* what holds instead: the only nil node of a parsed Program is a call
\* argument
NilOnlyAsArgument ==
    ~IsNil(program) => \A i \in 1..Len(program.Stmts) : Formed(program.Stmts[i], TRUE)

\* a(1,);  has been returned as a call of a with the arguments 1 and nil
MissingArgumentReturned ==
    /\ ppc = "done"
    /\ tokens = TokensOf(<<TokA, TokLParen, Tok1, TokComma, TokRParen, TokSemicolon>>)
    /\ Len(program.Stmts) = 1
    /\ program.Stmts[1].Value.kind = "CallExpr"
    /\ Len(program.Stmts[1].Value.Args) = 2
    /\ ~IsNil(program.Stmts[1].Value.Args[1])
    /\ IsNil(program.Stmts[1].Value.Args[2])

\* ---------------------------------------------------------------------------
\* C24: expression parsing binds, from tightest to loosest: postfix (call,
\* index, member), unary prefix (- !),  * / %,  + -,  < > <= >=,  == != ;
\* binary operators of one level associate to the left and a postfix chain is
\* applied left to right on the same primary, so  1 + 2 * 3  is  1 + (2 * 3),
\* a - b - c  is  (a - b) - c,  -a.b  is  -(a.b)  and  a.b[0](1)  is the call
\* of the index of the member.

\* the binding level of a binary operator token, by the list above
Level(op) ==
    CASE op.Type \in {"ASTERISK", "SLASH", "PERCENT"} -> 4
      [] op.Type \in {"PLUS", "MINUS"} -> 3
      [] op.Type \in {"LT", "GT", "LTEQ", "GTEQ"} -> 2
      [] OTHER -> 1

\* the node of the operand token tok at token i
Operand(tok, i) ==
    IF tok.Type = "IDENT" THEN Ident(PositionAt(i), tok.Lexeme)
    ELSE NumberLit(PositionAt(i), <<DigitsValue(tok.Lexeme)>>, <<>>)

\* the postfix f, whose first token is token i, applied to the node n
Applied(f, i, n) ==
    CASE f[1].Type = "DOT" -> MemberExpr(n.Start, n, Operand(f[2], i + 1))
      [] f[1].Type = "LPAREN" -> CallExpr(n.Start, n, <<Operand(f[2], i + 1)>>)
      [] OTHER -> IndexExpr(n.Start, n, Operand(f[2], i + 1))

Binary(l, op, r) == BinaryExpr(l.Start, l, op.Lexeme, r)

Unary(u, i, n) == UnaryExpr(PositionAt(i), u.Lexeme, n)

\* the tree the rule gives the expression e whose first token is token k + 1
Expected(e, k) ==
    CASE e \in TwoOperators ->
            IF Level(e[4]) > Level(e[2])
            THEN Binary(Operand(e[1], k + 1), e[2],
                        Binary(Operand(e[3], k + 3), e[4], Operand(e[5], k + 5)))
            ELSE Binary(Binary(Operand(e[1], k + 1), e[2], Operand(e[3], k + 3)),
                        e[4], Operand(e[5], k + 5))
      [] e \in UnaryLeft ->
            Binary(Unary(e[1], k + 1, Operand(e[2], k + 2)), e[3], Operand(e[4], k + 4))
      [] e \in UnaryRight ->
            Binary(Operand(e[1], k + 1), e[2], Unary(e[3], k + 3, Operand(e[4], k + 4)))
      [] e \in UnaryPostfix ->
            Unary(e[1], k + 1, Applied(SubSeq(e, 3, Len(e)), k + 3, Operand(e[2], k + 2)))
      [] e \in BinaryPostfix ->
            Binary(Operand(e[1], k + 1), e[2],
                   Applied(SubSeq(e, 4, Len(e)), k + 4, Operand(e[3], k + 3)))
      [] e = <<TokA, TokLParen, Tok1, TokRParen, TokDot, TokB>> ->
            Applied(<<TokDot, TokB>>, k + 5,
                Applied(<<TokLParen, Tok1, TokRParen>>, k + 2, Operand(TokA, k + 1)))
      [] OTHER ->
            Applied(<<TokLParen, Tok1, TokRParen>>, k + 7,
                Applied(<<TokLBrack, Tok0, TokRBrack>>, k + 4,
                    Applied(<<TokDot, TokB>>, k + 2, Operand(TokA, k + 1))))

\* the tokens before the expression:  e;   x = e;   let x = e;
Before == {<<>>, <<TokX, TokEqual>>, <<TokLet, TokX, TokEqual>>}

PrintedTwice ==
    /\ vpc = "done"
    /\ stmts \in PrintTwice
    /\ NameO \in DOMAIN vars
    /\ Len(out) = 2

C25_StringifyDeterministic == PrintedTwice => out[1] = out[2]

\* the two strings Stringify can give the Object of the keys b and c: one for
\* each order in which the range over the map can meet the keys
ObjectTexts == {Stringify(ObjectRef(1), HostHeap, keys) : keys \in KeyOrders}

\* every print of the Object gives one of the two strings, and no other
EitherKeyOrder == PrintedTwice => out[1] \in ObjectTexts /\ out[2] \in ObjectTexts

\* two prints of the unchanged Object have given its keys in two orders
KeyOrderChanged == PrintedTwice /\ heap = HostHeap /\ out[1] # out[2]

\* ---------------------------------------------------------------------------
\* C26: after an ExprStmt executes without error, its value is the running
\* last value, for every value the expression can evaluate to, Null included:
\* a print(...) call that follows  5;  makes the program result Null.

\* this round of Execute's loop has executed an ExprStmt without error
ExprStmtExecuted ==
    /\ vpc = "loop"
    /\ pcount < Len(stmts)
    /\ stmts[pcount + 1].kind = "ExprStmt"
    /\ pcount' = pcount + 1

C26_ExprStmtIsLastValue ==
    [][ExprStmtExecuted => lastValue' = evaluated'[Len(evaluated')].val]_vars_all

\* what Execute does: the value of an ExprStmt becomes the last value unless
\* it is Null, and a Null value leaves the last value as it was
NullKeepsLastValue ==
    [][ExprStmtExecuted =>
          LET v == evaluated'[Len(evaluated')].val
          IN  lastValue' = IF v.t = "null" THEN lastValue ELSE v]_vars_all

\* a program whose last statement is a print call that executed without error
\* has returned the value of an earlier statement, not Null
EarlierValueReturned ==
    /\ vpc = "done"
    /\ Len(stmts) >= 2
    /\ pcount = Len(stmts)
    /\ stmts[Len(stmts)].kind = "ExprStmt"
    /\ stmts[Len(stmts)].Value.kind = "CallExpr"
    /\ evaluated[Len(evaluated)].val = Null
    /\ result[1].err = <<>>
    /\ result[1].value # Null

(***************************************************************************)
(* runWithTimeout: one execution raced against a deadline.  A call makes   *)
(* the channel ch of capacity one, starts the worker goroutine, which runs *)
(* fn and sends its (value, err) on ch, and waits in a select for ch or    *)
(* for the channel of time.After.  Calls follow one another in one caller; *)
(* the worker and the timer of a call that has returned live on.  Call i   *)
(* has the worker wpc[i] ("fn" while fn runs, "send" at the send, "done"   *)
(* after it), the worker's locals held[i], the buffer chans[i] of its ch   *)
(* and timers[i], TRUE once time.After's channel holds the tick.  cpc is   *)
(* "select" while the caller waits in the select of the latest call,       *)
(* returned[i] is what call i returned, and trace[i] lists the events of   *)
(* call i in the order they happened.                                      *)
(***************************************************************************)
MaxCalls == 2

\* make(chan result, 1)
Capacity == 1

\* what fn can return: a value, Null, or a RuntimeError of the program
FnResults ==
    {[value |-> Flt(Float(5, 1)), err |-> <<>>],
     [value |-> Null, err |-> <<>>],
     [value |-> Null,
      err |-> <<NewRuntimeError(PositionAt(1), Chars("undefined variable '%s'"),
                                <<<<"x">>>>)>>]}

\* var zero T, and the RuntimeError of the time.After case
TimedOut ==
    [value |-> Null,
     err |-> <<NewRuntimeError([Line |-> 0, Col |-> 0],
                 Chars("test timeout: execution took longer than 1 second"), <<>>)>>]

\* the call the caller is in
Current == Len(wpc)

RaceInit == LexerIdle /\ ParserIdle /\ VMIdle /\ RaceIdle

\* runWithTimeout up to its select: make the channel, start the worker,
\* start the timer of time.After
RunWithTimeout ==
    /\ cpc = "idle"
    /\ Len(wpc) < MaxCalls
    /\ chans' = Append(chans, <<>>)
    /\ wpc' = Append(wpc, "fn")
    /\ held' = Append(held, <<>>)
    /\ timers' = Append(timers, FALSE)
    /\ trace' = Append(trace, <<>>)
    /\ cpc' = "select"
    /\ UNCHANGED <<returned, lexerVars, parserVars, vmVars>>

\* the worker of call i:  value, err := fn()
WorkerFn(i) ==
    /\ wpc[i] = "fn"
    /\ \E res \in FnResults : held' = [held EXCEPT ![i] = <<res>>]
    /\ wpc' = [wpc EXCEPT ![i] = "send"]
    /\ UNCHANGED <<cpc, chans, timers, returned, trace, lexerVars, parserVars, vmVars>>

\* a worker that sends on a channel without buffer: the send goes through
\* only to a caller waiting in the select of this call.  Not what the worker
\* does.
WorkerSendUnbuffered(i) ==
    /\ wpc[i] = "send"
    /\ cpc = "select" /\ i = Current
    /\ chans' = [chans EXCEPT ![i] = Append(@, held[i][1])]
    /\ wpc' = [wpc EXCEPT ![i] = "done"]
    /\ trace' = [trace EXCEPT ![i] = Append(@, "sent")]
    /\ UNCHANGED <<cpc, held, timers, returned, lexerVars, parserVars, vmVars>>

\* the worker of call i:  ch <- result{value, err}, which goes through when the
\* buffer of ch has room; the goroutine ends
WorkerSend(i) ==
    /\ wpc[i] = "send"
    /\ Len(chans[i]) < Capacity
    /\ chans' = [chans EXCEPT ![i] = Append(@, held[i][1])]
    /\ wpc' = [wpc EXCEPT ![i] = "done"]
    /\ trace' = [trace EXCEPT ![i] = Append(@, "sent")]
    /\ UNCHANGED <<cpc, held, timers, returned, lexerVars, parserVars, vmVars>>

\* the timer of call i expires: the runtime puts the tick on the channel of
\* time.After
TimerExpires(i) ==
    /\ ~timers[i]
    /\ timers' = [timers EXCEPT ![i] = TRUE]
    /\ trace' = [trace EXCEPT ![i] = Append(@, "expired")]
    /\ UNCHANGED <<cpc, wpc, held, chans, returned, lexerVars, parserVars, vmVars>>

\* the select of the caller: it waits until one of its two channels can be
\* received from, and takes one of those that can
Select ==
    /\ cpc = "select"
    /\ \/ /\ chans[Current] # <<>>
          /\ returned' = Append(returned, Head(chans[Current]))
          /\ chans' = [chans EXCEPT ![Current] = Tail(@)]
       \/ /\ timers[Current]
          /\ returned' = Append(returned, TimedOut)
          /\ UNCHANGED chans
    /\ trace' = [trace EXCEPT ![Current] = Append(@, "returned")]
    /\ cpc' = "idle"
    /\ UNCHANGED <<wpc, held, timers, lexerVars, parserVars, vmVars>>

RaceNext ==
    \/ RunWithTimeout
    \/ \E i \in 1..Len(wpc) : WorkerFn(i)
    \/ \E i \in 1..Len(wpc) : WorkerSend(i)
    \/ \E i \in 1..Len(wpc) : TimerExpires(i)
    \/ Select

RaceSpec == RaceInit /\ [][RaceNext]_vars_all

\* the runtime fires a timer that is due, and runs a caller whose select can
\* go on; nothing makes fn return
RaceLive ==
    /\ RaceSpec
    /\ WF_vars_all(Select)
    /\ \A i \in 1..MaxCalls : WF_vars_all(i <= Len(wpc) /\ TimerExpires(i))

\* ---------------------------------------------------------------------------
\* C27: an execution raced against a deadline (runWithTimeout) yields exactly
\* one outcome per call: the worker's (value, error) if the worker finishes
\* before the deadline, otherwise a timeout RuntimeError; after the deadline
\* the caller never waits for the worker, the worker's late result is
\* discarded, and the worker's send of its result never blocks.

\* where the event e first is in the events tr, past their end if nowhere
RECURSIVE Index(_, _)
Index(tr, e) ==
    IF tr = <<>> THEN 1
    ELSE IF Head(tr) = e THEN 1
    ELSE 1 + Index(Tail(tr), e)

Happened(i, e) == Index(trace[i], e) <= Len(trace[i])

\* e happened in call i before the call returned
BeforeReturn(i, e) == Index(trace[i], e) < Index(trace[i], "returned")

\* every call has returned once, but the one the caller is in
OneOutcome ==
    /\ Len(returned) = Len(wpc) - (IF cpc = "select" THEN 1 ELSE 0)
    /\ \A i \in 1..Len(wpc) :
          /\ Happened(i, "returned") <=> i <= Len(returned)
          /\ Len(SelectSeq(trace[i], LAMBDA e : e = "returned")) <= 1

\* the caller whose deadline has passed can go on, whatever the worker does
NeverWaits == (cpc = "select" /\ timers[Current]) => ENABLED Select

\* the worker at its send can send
NeverBlocks == \A i \in 1..Len(wpc) : wpc[i] = "send" => ENABLED WorkerSend(i)

\* the result of a worker whose call timed out stays in the buffer of its
\* channel: nothing receives it
Discarded ==
    \A i \in 1..Len(returned) :
        (returned[i] = TimedOut /\ wpc[i] = "done") => chans[i] = held[i]

\* the outcome by the order of the two events: the worker's result when it
\* was sent before the timer expired, the timeout otherwise
OutcomeByOrder ==
    \A i \in 1..Len(returned) :
        returned[i] = IF Index(trace[i], "sent") < Index(trace[i], "expired")
                      THEN held[i][1] ELSE TimedOut

\* the claim as it stands
C27_RaceByOrder == OneOutcome /\ OutcomeByOrder /\ NeverWaits /\ Discarded /\ NeverBlocks

\* the outcome by what the select found: the worker's result only if it had
\* been sent, the timeout only if the timer had expired, and so the one of
\* the two that had happened if only one had
OutcomeOfSelect ==
    \A i \in 1..Len(returned) :
        /\ \/ BeforeReturn(i, "sent") /\ returned[i] = held[i][1]
           \/ BeforeReturn(i, "expired") /\ returned[i] = TimedOut
        /\ ~BeforeReturn(i, "expired") => returned[i] = held[i][1]
        /\ ~BeforeReturn(i, "sent") => returned[i] = TimedOut

C27_Race == OneOutcome /\ OutcomeOfSelect /\ NeverWaits /\ Discarded /\ NeverBlocks

\* the first call timed out and its worker finished late, the second call
\* returned the result of its worker
C27_Witness ==
    /\ Len(returned) = 2
    /\ returned[1] = TimedOut
    /\ trace[1] = <<"expired", "returned", "sent">>
    /\ chans[1] = held[1]
    /\ returned[2] # TimedOut
    /\ returned[2] = held[2][1]

\* the result was in the channel and the timer had expired when the select
\* chose
BothReady ==
    \E i \in 1..Len(returned) : BeforeReturn(i, "sent") /\ BeforeReturn(i, "expired")

\* a call returns once its deadline has passed, also when fn never returns
ReturnsAfterDeadline == (cpc = "select") ~> (cpc = "idle")

\* ---------------------------------------------------------------------------
\* C29: when Execute stops with a RuntimeError in statement k, the environment
\* holds exactly the bindings and container mutations made by statements
\* 1..k-1 (there is no rollback), and statement k itself has bound and mutated
\* nothing: a let or assignment binds or mutates only after its value and its
\* target sub-expressions have all been evaluated without error.

\* the environment after the statements i.. of ss have executed in env
RECURSIVE Replay(_, _, _)
Replay(env, ss, i) ==
    IF i > Len(ss) THEN env
    ELSE Let(evalStmt([vars |-> env.vars, heap |-> env.heap,
                       keys |-> CHOOSE k \in KeyOrders : TRUE], ss[i]), LAMBDA r :
             Replay([vars |-> r.vars, heap |-> r.heap], ss, i + 1))

\* Execute has returned the RuntimeError of statement pcount + 1
StoppedWithError == vpc = "done" /\ result[1].err # <<>>

C29_NothingFromFailedStatement ==
    StoppedWithError =>
        \E env \in Environments :
            Replay(env, SubSeq(stmts, 1, pcount), 1) = [vars |-> vars, heap |-> heap]

\* the round of the loop that meets the error leaves the environment as it
\* found it
FailedStatementChangesNothing ==
    [][(vpc = "loop" /\ vpc' = "done" /\ result'[1].err # <<>>) =>
          vars' = vars /\ heap' = heap]_vars_all

\* an assignment to a name that is not bound has stopped a program whose
\* earlier let is still bound and whose earlier member write is still in the
\* Object of the host
C29_Witness ==
    /\ StoppedWithError
    /\ pcount = 2
    /\ stmts[3].kind = "AssignStmt"
    /\ stmts[3].Target.kind = "Ident"
    /\ stmts[3].Target.Name \notin DOMAIN vars
    /\ stmts[1].kind = "LetStmt"
    /\ stmts[1].Name.Name \in DOMAIN vars
    /\ NameO \in DOMAIN vars
    /\ heap # HostHeap

\* ---------------------------------------------------------------------------
\* C30: AllTokens emits the end-of-file token only after every byte of the
\* input has been scanned: no byte at or after the EOF token's offset belongs
\* to the input, for every input, those that hold a NUL (0x00) byte before
\* their end included.

\* AllTokens has returned; its last token
Scanned == lpc = "done"

LastToken == allTokens[Len(allTokens)]

C30_EOFAtEnd ==
    Scanned => LastToken.Type = "EOF" /\ LastToken.Pos.Offset >= Len(input)

\* what NextToken does: the EOF token is at the end of the input or at a NUL
\* byte of it, which case 0 takes for the end
EOFAtEndOrNUL ==
    Scanned =>
        /\ LastToken.Type = "EOF"
        /\ \/ LastToken.Pos.Offset >= Len(input)
           \/ input[LastToken.Pos.Offset + 1] = NUL

\* the EOF token is at a NUL byte, and bytes that are not NUL follow it
\* unscanned
BytesAfterEOF ==
    /\ Scanned
    /\ LastToken.Pos.Offset + 1 < Len(input)
    /\ input[LastToken.Pos.Offset + 1] = NUL
    /\ input[Len(input)] = "a"
====
